---- MODULE Spec2Model ----
(***************************************************************************)
(* A model of the superpage reservation manager, sys/vm/vm_reserv.c.       *)
(*                                                                         *)
(* The reservation array, the two LRU queues, the per-object reservation   *)
(* lists, the population maps and the locks are the state.  The queue and  *)
(* list linkage is modelled at the level of the <sys/queue.h> link fields  *)
(* (tqe_next / tqe_prev, le_next / le_prev), because vm_reserv_scan() can  *)
(* hand TAILQ_INSERT_BEFORE an element that was just removed and only the  *)
(* link fields say what the queue looks like afterwards.                   *)
(*                                                                         *)
(* The machine constants are scaled down: a reservation holds              *)
(* VM_LEVEL_0_NPAGES = 4 small pages in NPOPMAP = 2 population-map words   *)
(* of NBPOPMAP = 2 bits, the activation count saturates at RV_ACT_MAX = 2  *)
(* and the lock pool has RV_LOCK_COUNT = 2 entries.  KASSERT and           *)
(* mtx_assert are compiled out of a production kernel; the model runs on   *)
(* past a failed assertion as that kernel does and records its name in     *)
(* "chk".                                                                  *)
(***************************************************************************)
EXTENDS Integers, Sequences, FiniteSets, TLC

(***************************************************************************)
(* Program constants.                                                      *)
(***************************************************************************)
VM_LEVEL_0_ORDER == 2
PAGE_SHIFT == 1
VM_LEVEL_0_NPAGES == 2 ^ VM_LEVEL_0_ORDER
VM_LEVEL_0_SHIFT == VM_LEVEL_0_ORDER + PAGE_SHIFT
VM_LEVEL_0_SIZE == 2 ^ VM_LEVEL_0_SHIFT
PAGE_SIZE == 2 ^ PAGE_SHIFT
NBPOPMAP == 2
NPOPMAP == (VM_LEVEL_0_NPAGES + NBPOPMAP - 1) \div NBPOPMAP
VM_RESERV_F_ACTIVE == 1
VM_RESERV_F_INACTIVE == 2
VM_RESERV_F_MARKER == 4
VM_RESERV_F_PARTPOP == {VM_RESERV_F_ACTIVE, VM_RESERV_F_INACTIVE}
RV_INIT == 2
RV_POP_STEP == 1
RV_DEPOP_STEP == 1
RV_DEC == 1
RV_ACT_MAX == 2
RV_LOCK_COUNT == 2
\* widths of uint16_t popcnt, of vm_pindex_t and of vm_paddr_t (the last two scaled)
POPCNT_BITS == 16
PINDEX_BITS == 5
PADDR_BITS == 8
\* seq_t, narrowed likewise
SEQ_BITS == 2
POPCNT_MOD == 2 ^ POPCNT_BITS
PINDEX_MOD == 2 ^ PINDEX_BITS
PADDR_MOD == 2 ^ PADDR_BITS
SEQ_MOD == 2 ^ SEQ_BITS

(***************************************************************************)
(* Bounds of the model.                                                    *)
(***************************************************************************)
\* elements of vm_reserv_array
NRes == 4
\* the superpages that a physical segment backs at boot
NBoot == 2
\* the longest run a caller asks vm_reserv_alloc_contig for
MaxNpages == 5
\* the largest page index a caller asks for
MaxPindex == 4
\* VM objects
NObj == 2
\* largest target handed to vm_reserv_scan
MaxTarget == 1
\* calls of vm_reserv_scan counted once allocation and freeing have stopped
MaxScans == 8

NULL == -1
Rvs == 0 .. NRes - 1
\* the scan marker is a static record outside the array; NRes stands for it
Marker == NRes
Elems == Rvs \cup {Marker}
Objs == 1 .. NObj
Pages == 0 .. NRes * VM_LEVEL_0_NPAGES - 1
Slots == 0 .. VM_LEVEL_0_NPAGES - 1
\* the end of physical memory
PhysTop == NRes * VM_LEVEL_0_SIZE
ACTQ == 0
INACTQ == 1
Queues == {ACTQ, INACTQ}
OBJT_DEFAULT == "default"
OBJT_VNODE == "vnode"

(***************************************************************************)
(* Machine words.                                                          *)
(***************************************************************************)
WordMax == 2 ^ NBPOPMAP - 1
Bit(w, k) == (w \div (2 ^ k)) % 2
BitsOf(w) == {k \in 0 .. NBPOPMAP - 1 : Bit(w, k) = 1}
ToWord(S) ==
  LET f[k \in 0 .. NBPOPMAP] ==
        IF k = 0 THEN 0
        ELSE f[k - 1] + (IF (k - 1) \in S THEN 2 ^ (k - 1) ELSE 0)
  IN f[NBPOPMAP]
\* ~w, a | b, a & b on popmap_t
WNot(w) == WordMax - w
WOr(a, b) == ToWord(BitsOf(a) \cup BitsOf(b))
WAnd(a, b) == ToWord(BitsOf(a) \cap BitsOf(b))
\* (1UL << k) - 1
LowMask(k) == 2 ^ k - 1
SetMin(S) == CHOOSE x \in S : \A y \in S : x <= y
ffsl(w) == IF w = 0 THEN 0 ELSE 1 + SetMin(BitsOf(w))

RECURSIVE BitAnd(_, _)
BitAnd(a, b) ==
  IF a = 0 \/ b = 0 THEN 0
  ELSE (a % 2) * (b % 2) + 2 * BitAnd(a \div 2, b \div 2)
RECURSIVE BitXor(_, _)
BitXor(a, b) ==
  IF a = 0 THEN b
  ELSE IF b = 0 THEN a
  ELSE ((a + b) % 2) + 2 * BitXor(a \div 2, b \div 2)
\* ~x on vm_paddr_t
PNot(x) == PADDR_MOD - 1 - x
PSub(a, b) == (a - b + PADDR_MOD) % PADDR_MOD
\* arithmetic on vm_pindex_t
IdxAdd(a, b) == (a + b) % PINDEX_MOD
IdxSub(a, b) == (a - b + 2 * PINDEX_MOD) % PINDEX_MOD

\* popmap_clear that wipes the whole word of the bit
popmap_clear_word(popmap, i) ==
  [popmap EXCEPT ![i \div NBPOPMAP] = 0]
popmap_clear(popmap, i) ==
  [popmap EXCEPT ![i \div NBPOPMAP] = WAnd(@, WNot(2 ^ (i % NBPOPMAP)))]
popmap_set(popmap, i) ==
  [popmap EXCEPT ![i \div NBPOPMAP] = WOr(@, 2 ^ (i % NBPOPMAP))]
popmap_is_clear(popmap, i) ==
  WAnd(popmap[i \div NBPOPMAP], 2 ^ (i % NBPOPMAP)) = 0
popmap_is_set(popmap, i) ==
  WAnd(popmap[i \div NBPOPMAP], 2 ^ (i % NBPOPMAP)) # 0
EmptyPopmap == [w \in 0 .. NPOPMAP - 1 |-> 0]
\* the number of set bits of a population map
PopCount(popmap) == Cardinality({i \in Slots : popmap_is_set(popmap, i)})


(***************************************************************************)
(* State.                                                                  *)
(***************************************************************************)
VARIABLES
  rv,         \* vm_reserv_array and the scan marker: object, pindex, pages, seq, popcnt, actcnt, flags, popmap
  tqh_first,  \* vm_rvlru_active / vm_rvlru_inactive: tqh_first
  tqh_last,   \* ... tqh_last, the address of the last element's tqe_next
  tqe_next,   \* partpopq.tqe_next of every record
  tqe_prev,   \* partpopq.tqe_prev of every record, the address of the previous tqe_next
  lh_first,   \* object->rvq.lh_first
  le_next,    \* objq.le_next of every record
  le_prev,    \* objq.le_prev of every record
  obj,        \* the VM objects: size, type, backing_object, pg_color
  pg,         \* the small pages: object, pindex
  psind,      \* rv->pages->psind of every reservation's first page
  phys_free,  \* the pages that are free in the physical memory allocator
  halt,       \* "" while the kernel runs, else why it stopped (a fault, a loop that never ends)
  mtx,        \* the owner of vm_page_queue_free_mtx, "" when it is free
  rvlock,     \* the owner of every mutex of rv_lock[], "" when it is free
  thr         \* the threads inside an operation: where they are, and their locals

vars == <<rv, tqh_first, tqh_last, tqe_next, tqe_prev, lh_first, le_next,
          le_prev, obj, pg, psind, phys_free, halt, mtx, rvlock, thr>>

\* the shared state as one value, for the operators that transform it.  Two
\* fields follow one operation only: cnt, what it adds to the statistics
\* vm_reserv_broken and vm_reserv_reclaimed (which the code writes and never
\* reads), and chk, the first of its assertions that failed ("" when none did)
St ==
  [rv |-> rv, tqh_first |-> tqh_first, tqh_last |-> tqh_last,
   tqe_next |-> tqe_next, tqe_prev |-> tqe_prev, lh_first |-> lh_first,
   le_next |-> le_next, le_prev |-> le_prev, obj |-> obj, pg |-> pg,
   psind |-> psind, phys_free |-> phys_free, halt |-> halt,
   cnt |-> [broken |-> 0, reclaimed |-> 0], chk |-> ""]

\* the shared state becomes s
CommitSt(s) ==
  /\ rv' = s.rv
  /\ tqh_first' = s.tqh_first
  /\ tqh_last' = s.tqh_last
  /\ tqe_next' = s.tqe_next
  /\ tqe_prev' = s.tqe_prev
  /\ lh_first' = s.lh_first
  /\ le_next' = s.le_next
  /\ le_prev' = s.le_prev
  /\ obj' = s.obj
  /\ pg' = s.pg
  /\ psind' = s.psind
  /\ phys_free' = s.phys_free
  /\ halt' = s.halt

\* an operation that runs from call to return with no other thread in between
Commit(s) == CommitSt(s) /\ UNCHANGED <<mtx, rvlock, thr>>

\* KASSERT(cond, label): a no-op in a production kernel; the failure is recorded
KASSERT(s, cond, label) ==
  IF cond \/ s.chk # "" THEN s ELSE [s EXCEPT !.chk = label]
Fault(s, why) == IF s.halt = "" THEN [s EXCEPT !.halt = why] ELSE s

(***************************************************************************)
(* <sys/queue.h>.  An address is the place of a pointer to an element:     *)
(* <<"tqh", q>> is &head->tqh_first, <<"tqe", e>> is &e->partpopq.tqe_next,*)
(* <<"lh", o>> is &o->rvq.lh_first and <<"le", e>> is &e->objq.le_next.    *)
(***************************************************************************)
NilAddr == <<"nil", 0>>
TqhAddr(q) == <<"tqh", q>>
TqeAddr(e) == <<"tqe", e>>
LhAddr(o) == <<"lh", o>>
LeAddr(e) == <<"le", e>>

\* *addr = val
Store(s, addr, val) ==
  CASE addr[1] = "tqh" -> [s EXCEPT !.tqh_first[addr[2]] = val]
    [] addr[1] = "tqe" -> [s EXCEPT !.tqe_next[addr[2]] = val]
    [] addr[1] = "lh" -> [s EXCEPT !.lh_first[addr[2]] = val]
    [] addr[1] = "le" -> [s EXCEPT !.le_next[addr[2]] = val]
    [] OTHER -> Fault(s, "null pointer write")

TAILQ_INSERT_HEAD(s, q, elm) ==
  LET first == s.tqh_first[q]
      s1 == [s EXCEPT !.tqe_next[elm] = first]
      s2 == IF first # NULL
            THEN [s1 EXCEPT !.tqe_prev[first] = TqeAddr(elm)]
            ELSE [s1 EXCEPT !.tqh_last[q] = TqeAddr(elm)]
  IN [s2 EXCEPT !.tqh_first[q] = elm, !.tqe_prev[elm] = TqhAddr(q)]

TAILQ_INSERT_TAIL(s, q, elm) ==
  LET s1 == [s EXCEPT !.tqe_next[elm] = NULL, !.tqe_prev[elm] = s.tqh_last[q]]
      s2 == Store(s1, s1.tqh_last[q], elm)
  IN [s2 EXCEPT !.tqh_last[q] = TqeAddr(elm)]

TAILQ_INSERT_BEFORE(s, listelm, elm) ==
  LET s1 == [s EXCEPT !.tqe_prev[elm] = s.tqe_prev[listelm]]
      s2 == [s1 EXCEPT !.tqe_next[elm] = listelm]
      s3 == Store(s2, s2.tqe_prev[listelm], elm)
  IN [s3 EXCEPT !.tqe_prev[listelm] = TqeAddr(elm)]

TAILQ_REMOVE(s, q, elm) ==
  LET next == s.tqe_next[elm]
      s1 == IF next # NULL
            THEN [s EXCEPT !.tqe_prev[next] = s.tqe_prev[elm]]
            ELSE [s EXCEPT !.tqh_last[q] = s.tqe_prev[elm]]
  IN Store(s1, s1.tqe_prev[elm], s1.tqe_next[elm])

LIST_INSERT_HEAD(s, o, elm) ==
  LET first == s.lh_first[o]
      s1 == [s EXCEPT !.le_next[elm] = first]
      s2 == IF first # NULL
            THEN [s1 EXCEPT !.le_prev[first] = LeAddr(elm)]
            ELSE s1
  IN [s2 EXCEPT !.lh_first[o] = elm, !.le_prev[elm] = LhAddr(o)]

\* LIST_REMOVE that leaves the element linked
LIST_REMOVE_none(s, elm) == s
LIST_REMOVE(s, elm) ==
  LET next == s.le_next[elm]
      s1 == IF next # NULL
            THEN [s EXCEPT !.le_prev[next] = s.le_prev[elm]]
            ELSE s
  IN Store(s1, s1.le_prev[elm], s1.le_next[elm])

\* the elements a traversal from the head reaches, in order; a traversal that
\* does not end within Fuel steps is cut there
Fuel == (RV_ACT_MAX + 2) * (NRes + 2)
RECURSIVE Walk(_, _, _)
Walk(next, e, n) ==
  IF e = NULL \/ n = 0 THEN <<>> ELSE <<e>> \o Walk(next, next[e], n - 1)
QueueSeq(s, q) == Walk(s.tqe_next, s.tqh_first[q], Fuel)
RvqSeq(s, o) == Walk(s.le_next, s.lh_first[o], Fuel)
SeqSet(sq) == {sq[i] : i \in 1 .. Len(sq)}
Count(sq, e) == Cardinality({i \in 1 .. Len(sq) : sq[i] = e})

(***************************************************************************)
(* The physical memory allocator (vm_phys), as far as this module uses it. *)
(***************************************************************************)
Run(p, n) == p .. p + n - 1
\* vm_phys_free_pages that frees the first page of the block only
vm_phys_free_pages_one(s, p, order) == [s EXCEPT !.phys_free = @ \cup {p}]
vm_phys_free_pages(s, p, order) ==
  [s EXCEPT !.phys_free = @ \cup Run(p, 2 ^ order)]
vm_phys_free_contig(s, p, npages) ==
  [s EXCEPT !.phys_free = @ \cup Run(p, npages)]
VM_PAGE_TO_PHYS(p) == p * PAGE_SIZE
vm_reserv_from_page(p) == VM_PAGE_TO_PHYS(p) \div VM_LEVEL_0_SIZE


(***************************************************************************)
(* The reservation's own operations.                                       *)
(***************************************************************************)
Flag(s, r, f) == f \in s.rv[r].flags
InPartpop(s, r) == s.rv[r].flags \cap VM_RESERV_F_PARTPOP # {}
OnOneQueueFlag(s, r) ==
  /\ s.rv[r].flags \cap VM_RESERV_F_PARTPOP # {}
  /\ s.rv[r].flags \cap VM_RESERV_F_PARTPOP # VM_RESERV_F_PARTPOP

(***************************************************************************)
(* What the code leaves behind in a record and never reads before it has   *)
(* written it again is kept out of the state: the queue links and actcnt   *)
(* of a record taken off its LRU queue, the list links of a record taken   *)
(* off its object's list, the pindex of a record without object.           *)
(***************************************************************************)
DeadPartpopq(s, r) == [s EXCEPT !.tqe_next[r] = NULL, !.tqe_prev[r] = NilAddr]
DeadActcnt(s, r) == [s EXCEPT !.rv[r].actcnt = 0]
DeadObjq(s, r) == [s EXCEPT !.le_next[r] = NULL, !.le_prev[r] = NilAddr]

\* seq_write_begin; the two fields; seq_write_end
vm_reserv_set_object(s, r, object, pindex) ==
  [s EXCEPT !.rv[r].seq = (@ + 2) % SEQ_MOD,
            !.rv[r].pindex = IF object # NULL THEN pindex ELSE 0,
            !.rv[r].object = object]

vm_reserv_lru_dequeue(s, r) ==
  LET s1 == KASSERT(s, OnOneQueueFlag(s, r), "lru_dequeue: not in partpop queues")
      s2 == KASSERT(s1, ~Flag(s, r, VM_RESERV_F_MARKER), "lru_dequeue: marker")
      s3 == IF Flag(s, r, VM_RESERV_F_INACTIVE)
            THEN TAILQ_REMOVE(s2, INACTQ, r)
            ELSE TAILQ_REMOVE(s2, ACTQ, r)
  IN DeadPartpopq([s3 EXCEPT !.rv[r].flags = @ \ VM_RESERV_F_PARTPOP], r)

\* which arm of vm_reserv_update_lru runs
update_lru_arm(s, r) ==
  IF s.rv[r].popcnt = VM_LEVEL_0_NPAGES THEN "full"
  ELSE IF s.rv[r].popcnt = 0 THEN "empty"
  ELSE IF ~Flag(s, r, VM_RESERV_F_ACTIVE) THEN "activate"
  ELSE "advance"

\* update_lru_unlocked that lets actcnt grow past RV_ACT_MAX
update_lru_unlocked_nosat(s, r, advance) ==
  LET arm == update_lru_arm(s, r)
  IN CASE arm = "full" ->
            KASSERT(s, OnOneQueueFlag(s, r), "update_lru: corrupt reservation flags")
       [] arm = "empty" -> vm_reserv_set_object(s, r, NULL, s.rv[r].pindex)
       [] arm = "activate" -> [s EXCEPT !.rv[r].actcnt = RV_INIT]
       [] OTHER -> [s EXCEPT !.rv[r].actcnt = @ + advance]
\* vm_reserv_update_lru up to the mtx_lock of its arm
update_lru_unlocked(s, r, advance) ==
  LET arm == update_lru_arm(s, r)
  IN CASE arm = "full" ->
            KASSERT(s, OnOneQueueFlag(s, r), "update_lru: corrupt reservation flags")
       [] arm = "empty" -> vm_reserv_set_object(s, r, NULL, s.rv[r].pindex)
       [] arm = "activate" -> [s EXCEPT !.rv[r].actcnt = RV_INIT]
       [] OTHER ->
            [s EXCEPT !.rv[r].actcnt =
               IF @ + advance > RV_ACT_MAX THEN RV_ACT_MAX ELSE @ + advance]

\* vm_reserv_update_lru between mtx_lock and mtx_unlock of the arm taken
update_lru_locked(s, r, arm) ==
  CASE arm = "full" -> DeadActcnt(vm_reserv_lru_dequeue(s, r), r)
    [] arm = "empty" ->
         LET s1 == DeadObjq(LIST_REMOVE(s, r), r)
             s2 == DeadActcnt(vm_reserv_lru_dequeue(s1, r), r)
             s3 == vm_phys_free_pages(s2, s2.rv[r].pages, VM_LEVEL_0_ORDER)
         IN s3
    [] arm = "activate" ->
         LET s1 == IF Flag(s, r, VM_RESERV_F_INACTIVE)
                   THEN vm_reserv_lru_dequeue(s, r) ELSE s
             s2 == TAILQ_INSERT_TAIL(s1, ACTQ, r)
         IN [s2 EXCEPT !.rv[r].flags = @ \cup {VM_RESERV_F_ACTIVE}]
    [] OTHER -> s

vm_reserv_update_lru(s, r, advance) ==
  update_lru_locked(update_lru_unlocked(s, r, advance), r, update_lru_arm(s, r))

\* vm_reserv_depopulate up to its call of vm_reserv_update_lru
depopulate_bits(s, r, index) ==
  LET s1 == KASSERT(s, s.rv[r].object # NULL, "depopulate: reserv is free")
      s2 == KASSERT(s1, popmap_is_set(s.rv[r].popmap, index), "depopulate: popmap is clear")
      s3 == KASSERT(s2, s.rv[r].popcnt > 0, "depopulate: popcnt is corrupted")
      s4 == [s3 EXCEPT !.rv[r].popmap = popmap_clear(@, index),
                       !.rv[r].popcnt = (@ - 1 + POPCNT_MOD) % POPCNT_MOD]
  IN IF s.rv[r].popcnt = VM_LEVEL_0_NPAGES
     THEN LET s5 == KASSERT(s4, s.psind[r] = 1 /\ ~InPartpop(s, r),
                            "depopulate: already demoted")
          IN [s5 EXCEPT !.psind[r] = 0]
     ELSE s4

\* vm_reserv_depopulate that leaves the LRU state alone
depopulate_no_lru(s, r, index) == depopulate_bits(s, r, index)
vm_reserv_depopulate(s, r, index) ==
  vm_reserv_update_lru(depopulate_bits(s, r, index), r, RV_DEPOP_STEP)

\* vm_reserv_populate up to its call of vm_reserv_update_lru
populate_bits(s, r, index) ==
  LET s1 == KASSERT(s, s.rv[r].object # NULL, "populate: reserv is free")
      s2 == KASSERT(s1, popmap_is_clear(s.rv[r].popmap, index), "populate: popmap is set")
      s3 == KASSERT(s2, s.rv[r].popcnt < VM_LEVEL_0_NPAGES, "populate: already full")
      s4 == KASSERT(s3, s.psind[r] = 0, "populate: already promoted")
      s5 == [s4 EXCEPT !.rv[r].popmap = popmap_set(@, index),
                       !.rv[r].popcnt = (@ + 1) % POPCNT_MOD]
  IN IF s5.rv[r].popcnt = VM_LEVEL_0_NPAGES
     THEN [s5 EXCEPT !.psind[r] = 1]
     ELSE s5

vm_reserv_populate(s, r, index) ==
  vm_reserv_update_lru(populate_bits(s, r, index), r, RV_POP_STEP)

vm_reserv_has_pindex(s, r, pindex) ==
  IdxSub(pindex, s.rv[r].pindex) \div VM_LEVEL_0_NPAGES = 0

\* VM_RESERV_INDEX without the object's colour
VM_RESERV_INDEX_nocolor(s, object, pindex) == pindex % VM_LEVEL_0_NPAGES
VM_RESERV_INDEX(s, object, pindex) ==
  (s.obj[object].pg_color + pindex) % VM_LEVEL_0_NPAGES

(***************************************************************************)
(* vm_reserv_break: the walk over the population map.  A walk state is the *)
(* map, the count, and the runs handed to vm_phys_free_contig so far, each *)
(* <<first slot, length>>.                                                 *)
(***************************************************************************)
PopSub(popcnt, n) == (popcnt - n + POPCNT_MOD) % POPCNT_MOD

\* while (++i < NPOPMAP) { lo = ffsl(~popmap[i]); if (lo == 0) ... else break; }
RECURSIVE break_skip_full(_, _, _)
break_skip_full(popmap, popcnt, i) ==
  IF i >= NPOPMAP THEN [popmap |-> popmap, popcnt |-> popcnt, i |-> NPOPMAP, lo |-> 0]
  ELSE LET lo == ffsl(WNot(popmap[i]))
       IN IF lo = 0
          THEN break_skip_full([popmap EXCEPT ![i] = 0], PopSub(popcnt, NBPOPMAP), i + 1)
          ELSE [popmap |-> popmap, popcnt |-> popcnt, i |-> i, lo |-> lo]

\* do hi = ffsl(popmap[i]); while (hi == 0 && ++i < NPOPMAP);
RECURSIVE break_next_one(_, _)
break_next_one(popmap, i) ==
  LET hi == ffsl(popmap[i])
  IN IF hi # 0 THEN [i |-> i, hi |-> hi]
     ELSE IF i + 1 < NPOPMAP THEN break_next_one(popmap, i + 1)
     ELSE [i |-> NPOPMAP, hi |-> 0]

RECURSIVE break_walk(_, _, _, _, _)
break_zero_run(popmap, popcnt, i, hi, lo1, calls) ==
  LET lo == lo1 - 1
      pm1 == IF lo > 0
             THEN [popmap EXCEPT ![i] = WAnd(@, WNot(LowMask(lo)))]
             ELSE popmap
      pc1 == IF lo > 0 THEN PopSub(popcnt, lo - hi) ELSE popcnt
      begin_zeroes == NBPOPMAP * i + lo
      nx == break_next_one(pm1, i)
      hi2 == IF nx.i # NPOPMAP THEN nx.hi - 1 ELSE nx.hi
      calls2 == Append(calls, <<begin_zeroes, NBPOPMAP * nx.i + hi2 - begin_zeroes>>)
  IN IF nx.i < NPOPMAP
     THEN break_walk(pm1, pc1, nx.i, hi2, calls2)
     ELSE [popmap |-> pm1, popcnt |-> pc1, calls |-> calls2]

break_walk(popmap, popcnt, i, hi, calls) ==
  LET lo == ffsl(WNot(WOr(LowMask(hi), popmap[i])))
  IN IF lo = 0
     THEN LET sk == break_skip_full([popmap EXCEPT ![i] = 0],
                                    PopSub(popcnt, NBPOPMAP - hi), i + 1)
          IN IF sk.i = NPOPMAP
             THEN [popmap |-> sk.popmap, popcnt |-> sk.popcnt, calls |-> calls]
             ELSE break_zero_run(sk.popmap, sk.popcnt, sk.i, 0, sk.lo, calls)
     ELSE break_zero_run(popmap, popcnt, i, hi, lo, calls)

\* free_runs that hands over the first run only
free_runs_first(s, base, calls) ==
  IF calls = <<>> THEN s
  ELSE vm_phys_free_contig(s, base + Head(calls)[1], Head(calls)[2])
RECURSIVE free_runs(_, _, _)
free_runs(s, base, calls) ==
  IF calls = <<>> \/ s.halt # "" THEN s
  ELSE free_runs(vm_phys_free_contig(s, base + Head(calls)[1], Head(calls)[2]),
                 base, Tail(calls))

\* vm_reserv_break up to its call of vm_reserv_set_object
break_head(s, r) ==
  LET s1 == KASSERT(s, s.rv[r].object # NULL, "break: reserv is free")
      s2 == KASSERT(s1, ~InPartpop(s, r), "break: reserv in partpop queues")
  IN DeadActcnt(DeadObjq(LIST_REMOVE(s2, r), r), r)

\* vm_reserv_break after its call of vm_reserv_set_object
break_tail(s, r, m) ==
  LET i == m - s.rv[r].pages
      s5 == IF m # NULL
            THEN LET k == KASSERT(s, popmap_is_clear(s.rv[r].popmap, i),
                                  "break: popmap is corrupted")
                 IN [k EXCEPT !.rv[r].popmap = popmap_set(@, i),
                              !.rv[r].popcnt = (@ + 1) % POPCNT_MOD]
            ELSE s
      w == break_walk(s5.rv[r].popmap, s5.rv[r].popcnt, 0, 0, <<>>)
      s6 == free_runs([s5 EXCEPT !.rv[r].popmap = w.popmap, !.rv[r].popcnt = w.popcnt],
                      s5.rv[r].pages, w.calls)
      s7 == KASSERT(s6, s6.rv[r].popcnt = 0, "break: popcnt is corrupted")
  IN [s7 EXCEPT !.cnt.broken = @ + 1]

vm_reserv_break(s, r, m) ==
  break_tail(vm_reserv_set_object(break_head(s, r), r, NULL, s.rv[r].pindex), r, m)

vm_reserv_reclaim(s, r) ==
  LET s1 == KASSERT(s, InPartpop(s, r), "reclaim: reserv not in partpop queues")
      s2 == vm_reserv_lru_dequeue(s1, r)
      s3 == vm_reserv_break(s2, r, NULL)
  IN [s3 EXCEPT !.cnt.reclaimed = @ + 1]


(***************************************************************************)
(* The object's page list (memq), which the callers keep sorted by pindex. *)
(***************************************************************************)
Memq(s, object) == {p \in Pages : s.pg[p].object = object}
PageAt(s, object, pindex) ==
  IF \E p \in Memq(s, object) : s.pg[p].pindex = pindex
  THEN CHOOSE p \in Memq(s, object) : s.pg[p].pindex = pindex
  ELSE NULL
\* the page of the object that immediately precedes pindex
MemqPred(s, object, pindex) ==
  LET below == {p \in Memq(s, object) : s.pg[p].pindex < pindex}
  IN IF below = {} THEN NULL
     ELSE CHOOSE p \in below : \A q \in below : s.pg[q].pindex <= s.pg[p].pindex
\* TAILQ_NEXT(mpred, listq), or TAILQ_FIRST(&object->memq) when mpred is NULL
MemqSucc(s, object, mpred) ==
  LET above == {p \in Memq(s, object) :
                  mpred = NULL \/ s.pg[p].pindex > s.pg[mpred].pindex}
  IN IF above = {} THEN NULL
     ELSE CHOOSE p \in above : \A q \in above : s.pg[p].pindex <= s.pg[q].pindex

\* VnodeBacked that looks at the object's own type only
VnodeBacked_own(s, object) == s.obj[object].type = OBJT_VNODE
VnodeBacked(s, object) ==
  \/ s.obj[object].type = OBJT_VNODE
  \/ /\ s.obj[object].backing_object # NULL
     /\ s.obj[s.obj[object].backing_object].type = OBJT_VNODE

(***************************************************************************)
(* The search for an existing reservation through a neighbouring page, run *)
(* without interference: seq_read / seq_consistent see one value.          *)
(* "found" carries the reservation, "cap" the limit the neighbour sets.    *)
(***************************************************************************)
\* probe_pred that takes no limit from the page before pindex
probe_pred_blind(s, object, pindex, mpred) ==
  [kind |-> "cap", rv |-> vm_reserv_from_page(mpred), cap |-> 0]
probe_pred(s, object, pindex, mpred) ==
  LET r == vm_reserv_from_page(mpred)
  IN IF s.rv[r].object = object
     THEN IF vm_reserv_has_pindex(s, r, pindex)
          THEN [kind |-> "found", rv |-> r, cap |-> 0]
          ELSE [kind |-> "cap", rv |-> r,
                cap |-> IdxAdd(s.rv[r].pindex, VM_LEVEL_0_NPAGES)]
     ELSE [kind |-> "cap", rv |-> r, cap |-> IdxAdd(s.pg[mpred].pindex, 1)]

probe_succ(s, object, pindex, msucc) ==
  LET r == vm_reserv_from_page(msucc)
  IN IF s.rv[r].object = object
     THEN IF vm_reserv_has_pindex(s, r, pindex)
          THEN [kind |-> "found", rv |-> r, cap |-> 0]
          ELSE [kind |-> "cap", rv |-> r, cap |-> s.rv[r].pindex]
     ELSE [kind |-> "cap", rv |-> r, cap |-> s.pg[msucc].pindex]

\* the result of an allocator front-end: the state, the page returned (or NULL)
\* and the reservation and path that gave it
AllocResult(s, m, r, how) == [s |-> s, m |-> m, rv |-> r, how |-> how]

alloc_page_found(s, object, pindex, r) ==
  LET index == VM_RESERV_INDEX(s, object, pindex)
      m == s.rv[r].pages + index
  IN IF popmap_is_set(s.rv[r].popmap, index)
     THEN AllocResult(s, NULL, r, "lost")
     ELSE AllocResult(vm_reserv_populate(s, r, index), m, r, "found")

\* the new reservation of vm_reserv_alloc_page; m is what vm_phys_alloc_pages gave
alloc_page_new(s, object, pindex, first, m) ==
  LET r == vm_reserv_from_page(m)
      s0 == [s EXCEPT !.phys_free = @ \ Run(m, VM_LEVEL_0_NPAGES)]
      s1 == KASSERT(s0, s.rv[r].pages = m, "alloc_page: pages is corrupted")
      s2 == KASSERT(s1, s.rv[r].object = NULL, "alloc_page: reserv isn't free")
      s3 == LIST_INSERT_HEAD(s2, object, r)
      s4 == vm_reserv_set_object(s3, r, object, first)
      s5 == KASSERT(s4, s.rv[r].popcnt = 0, "alloc_page: popcnt is corrupted")
      s6 == KASSERT(s5, ~InPartpop(s, r), "alloc_page: reserv in partpop queues")
      s7 == KASSERT(s6, s.rv[r].popmap = EmptyPopmap, "alloc_page: popmap is corrupted")
      index == VM_RESERV_INDEX(s, object, pindex)
  IN AllocResult(vm_reserv_populate(s7, r, index), s.rv[r].pages + index, r, "new")

\* vm_reserv_alloc_page; run is the answer of vm_phys_alloc_pages, should it be asked
vm_reserv_alloc_page(s, object, pindex, mpred, run) ==
  LET index == VM_RESERV_INDEX(s, object, pindex)
      first == IdxSub(pindex, index)
      sa == IF mpred # NULL
            THEN KASSERT(KASSERT(s, s.pg[mpred].object = object,
                                 "alloc_page: object doesn't contain mpred"),
                         s.pg[mpred].pindex < pindex,
                         "alloc_page: mpred doesn't precede pindex")
            ELSE s
      left == IF mpred # NULL THEN probe_pred(sa, object, pindex, mpred)
              ELSE [kind |-> "none", rv |-> NULL, cap |-> 0]
      msucc == MemqSucc(sa, object, mpred)
      sb == IF msucc # NULL
            THEN KASSERT(sa, s.pg[msucc].pindex > pindex,
                         "alloc_page: msucc doesn't succeed pindex")
            ELSE sa
      right == IF msucc # NULL THEN probe_succ(sb, object, pindex, msucc)
               ELSE [kind |-> "none", rv |-> NULL, cap |-> 0]
  IN IF pindex < index \/ pindex >= s.obj[object].size
     THEN AllocResult(s, NULL, NULL, "impossible")
     ELSE IF left.kind = "found"
     THEN alloc_page_found(sa, object, pindex, left.rv)
     ELSE IF left.kind = "cap" /\ left.cap > first
     THEN AllocResult(sa, NULL, NULL, "leftcap")
     ELSE IF right.kind = "found"
     THEN alloc_page_found(sb, object, pindex, right.rv)
     ELSE IF right.kind = "cap" /\ IdxAdd(first, VM_LEVEL_0_NPAGES) > right.cap
     THEN AllocResult(sb, NULL, NULL, "rightcap")
     ELSE IF /\ IdxAdd(first, VM_LEVEL_0_NPAGES) > s.obj[object].size
             /\ VnodeBacked(s, object)
     THEN AllocResult(sb, NULL, NULL, "vnode")
     ELSE IF run = NULL
     THEN AllocResult(sb, NULL, NULL, "nomem")
     ELSE alloc_page_new(sb, object, pindex, first, run)

\* roundup2(x, y) for a power of two y
roundup2(x, y) == ((x + y - 1) \div y) * y
\* (pa & (alignment - 1)) != 0
Misaligned(pa, alignment) == BitAnd(pa, PSub(alignment, 1)) # 0
\* ((pa ^ (pa + size - 1)) & ~(boundary - 1)) != 0
Crosses(pa, size, boundary) ==
  BitAnd(BitXor(pa, (pa + size - 1) % PADDR_MOD), PNot(PSub(boundary, 1))) # 0

\* vm_phys_alloc_contig: the free run of lowest address that meets the
\* constraints, NULL when there is none
vm_phys_alloc_contig(s, npages, low, high, alignment, boundary) ==
  LET size == npages * PAGE_SIZE
      runs == {p \in Pages : /\ Run(p, npages) \subseteq s.phys_free
                             /\ VM_PAGE_TO_PHYS(p) >= low
                             /\ VM_PAGE_TO_PHYS(p) + size <= high
                             /\ ~Misaligned(VM_PAGE_TO_PHYS(p), alignment)
                             /\ ~Crosses(VM_PAGE_TO_PHYS(p), size, boundary)}
  IN IF runs = {} THEN NULL ELSE SetMin(runs)

\* populate_run that populates the first slot only
populate_run_first(s, r, index, n) == vm_reserv_populate(s, r, index)
\* for (i = 0; i < n; i++) vm_reserv_populate(rv, index + i);
RECURSIVE populate_run(_, _, _, _)
populate_run(s, r, index, n) ==
  IF n = 0 \/ s.halt # "" THEN s
  ELSE populate_run(vm_reserv_populate(s, r, index), r, index + 1, n - 1)

\* the do ... while of vm_reserv_alloc_contig that binds the new reservations
RECURSIVE alloc_contig_new(_, _, _, _, _, _, _, _)
alloc_contig_new(s, object, first, m, index, npages, allocpages, m_ret) ==
  LET r == vm_reserv_from_page(m)
      s1 == KASSERT(s, s.rv[r].pages = m, "alloc_contig: pages is corrupted")
      s2 == KASSERT(s1, s.rv[r].object = NULL, "alloc_contig: reserv isn't free")
      s3 == LIST_INSERT_HEAD(s2, object, r)
      s4 == vm_reserv_set_object(s3, r, object, first)
      s5 == KASSERT(s4, s.rv[r].popcnt = 0, "alloc_contig: popcnt is corrupted")
      s6 == KASSERT(s5, ~InPartpop(s, r), "alloc_contig: reserv in partpop queues")
      s7 == KASSERT(s6, s.rv[r].popmap = EmptyPopmap, "alloc_contig: popmap is corrupted")
      n == IF VM_LEVEL_0_NPAGES - index < npages
           THEN VM_LEVEL_0_NPAGES - index ELSE npages
      s8 == populate_run(s7, r, index, n)
      ret == IF m_ret = NULL THEN s.rv[r].pages + index ELSE m_ret
  IN IF s8.halt = "" /\ allocpages - VM_LEVEL_0_NPAGES >= VM_LEVEL_0_NPAGES
     THEN alloc_contig_new(s8, object, IdxAdd(first, VM_LEVEL_0_NPAGES),
                           m + VM_LEVEL_0_NPAGES, 0, npages - n,
                           allocpages - VM_LEVEL_0_NPAGES, ret)
     ELSE AllocResult(s8, ret, vm_reserv_from_page(ret), "new")

\* alloc_contig_found that populates what fits before it gives up
alloc_contig_found_partial(s, object, pindex, npages, low, high, alignment, boundary, r) ==
  LET index == VM_RESERV_INDEX(s, object, pindex)
  IN IF index + npages > VM_LEVEL_0_NPAGES
     THEN AllocResult(populate_run(s, r, index, VM_LEVEL_0_NPAGES - index), NULL, r, "lost")
     ELSE AllocResult(populate_run(s, r, index, npages), s.rv[r].pages + index, r, "found")
\* alloc_contig_found that cuts a request down to what the reservation holds
alloc_contig_found_cut(s, object, pindex, npages, low, high, alignment, boundary, r) ==
  LET index == VM_RESERV_INDEX(s, object, pindex)
      n == IF index + npages > VM_LEVEL_0_NPAGES
           THEN VM_LEVEL_0_NPAGES - index ELSE npages
  IN IF \E i \in 0 .. n - 1 : popmap_is_set(s.rv[r].popmap, index + i)
     THEN AllocResult(s, NULL, r, "lost")
     ELSE AllocResult(populate_run(s, r, index, n), s.rv[r].pages + index, r, "found")
alloc_contig_found(s, object, pindex, npages, low, high, alignment, boundary, r) ==
  LET index == VM_RESERV_INDEX(s, object, pindex)
      m == s.rv[r].pages + index
      pa == VM_PAGE_TO_PHYS(m)
      size == npages * PAGE_SIZE
  IN IF index + npages > VM_LEVEL_0_NPAGES
     THEN AllocResult(s, NULL, r, "lost")
     ELSE IF \/ pa < low
             \/ pa + size > high
             \/ Misaligned(pa, alignment)
             \/ Crosses(pa, size, boundary)
     THEN AllocResult(s, NULL, r, "lost")
     ELSE IF \E i \in 0 .. npages - 1 : popmap_is_set(s.rv[r].popmap, index + i)
     THEN AllocResult(s, NULL, r, "lost")
     ELSE AllocResult(populate_run(s, r, index, npages), m, r, "found")

vm_reserv_alloc_contig(s, object, pindex, npages, low, high, alignment, boundary, mpred) ==
  LET index == VM_RESERV_INDEX(s, object, pindex)
      pa == index * PAGE_SIZE
      size == npages * PAGE_SIZE
      first == IdxSub(pindex, index)
      s0 == KASSERT(s, npages # 0, "alloc_contig: npages is 0")
      sa == IF mpred # NULL
            THEN KASSERT(KASSERT(s0, s.pg[mpred].object = object,
                                 "alloc_contig: object doesn't contain mpred"),
                         s.pg[mpred].pindex < pindex,
                         "alloc_contig: mpred doesn't precede pindex")
            ELSE s0
      left == IF mpred # NULL THEN probe_pred(sa, object, pindex, mpred)
              ELSE [kind |-> "none", rv |-> NULL, cap |-> 0]
      msucc == MemqSucc(sa, object, mpred)
      minpages == index + npages
      maxpages == roundup2(minpages, VM_LEVEL_0_NPAGES)
      sb == IF msucc # NULL
            THEN KASSERT(sa, s.pg[msucc].pindex > pindex,
                         "alloc_contig: pindex already allocated")
            ELSE sa
      right == IF msucc # NULL THEN probe_succ(sb, object, pindex, msucc)
               ELSE [kind |-> "none", rv |-> NULL, cap |-> 0]
      nofit == right.kind = "cap" /\ IdxAdd(first, maxpages) > right.cap
      tail == IdxAdd(first, maxpages) > s.obj[object].size /\ VnodeBacked(s, object)
      allocpages == IF nofit \/ tail THEN minpages ELSE maxpages
      m == vm_phys_alloc_contig(sb, allocpages, low, high,
                                IF alignment > VM_LEVEL_0_SIZE
                                THEN alignment ELSE VM_LEVEL_0_SIZE,
                                IF boundary > VM_LEVEL_0_SIZE THEN boundary ELSE 0)
  IN IF pindex < index \/ pindex + npages > s.obj[object].size
     THEN AllocResult(s, NULL, NULL, "impossible")
     ELSE IF Misaligned(pa, alignment)
     THEN AllocResult(s, NULL, NULL, "alignment")
     ELSE IF Crosses(pa, size, boundary)
     THEN AllocResult(s, NULL, NULL, "boundary")
     ELSE IF left.kind = "found"
     THEN alloc_contig_found(sa, object, pindex, npages, low, high, alignment,
                             boundary, left.rv)
     ELSE IF left.kind = "cap" /\ left.cap > first
     THEN AllocResult(sa, NULL, NULL, "leftcap")
     ELSE IF right.kind = "found"
     THEN alloc_contig_found(sb, object, pindex, npages, low, high, alignment,
                             boundary, right.rv)
     ELSE IF nofit /\ maxpages = VM_LEVEL_0_NPAGES
     THEN AllocResult(sb, NULL, NULL, "rightcap")
     ELSE IF tail /\ maxpages = VM_LEVEL_0_NPAGES
     THEN AllocResult(sb, NULL, NULL, "vnode")
     ELSE IF m = NULL
     THEN AllocResult(sb, NULL, NULL, "nomem")
     ELSE alloc_contig_new([sb EXCEPT !.phys_free = @ \ Run(m, allocpages)],
                           object, first, m, index, npages, allocpages, NULL)

free_page_unchecked(s, m) ==
  [s |-> vm_reserv_depopulate(s, vm_reserv_from_page(m),
                              m - s.rv[vm_reserv_from_page(m)].pages),
   ret |-> TRUE]
vm_reserv_free_page(s, m) ==
  LET r == vm_reserv_from_page(m)
  IN IF s.rv[r].object = NULL
     THEN [s |-> s, ret |-> FALSE]
     ELSE [s |-> vm_reserv_depopulate(s, r, m - s.rv[r].pages), ret |-> TRUE]

\* vm_reserv_rename that leaves the reservation on the list of old_object
rename_no_list(s, m, new_object, old_object, old_object_offset) ==
  LET r == vm_reserv_from_page(m)
  IN IF s.rv[r].object = old_object
     THEN vm_reserv_set_object(s, r, new_object,
                               IdxSub(s.rv[r].pindex, old_object_offset))
     ELSE s
vm_reserv_rename(s, m, new_object, old_object, old_object_offset) ==
  LET r == vm_reserv_from_page(m)
  IN IF s.rv[r].object = old_object
     THEN LET s1 == LIST_REMOVE(s, r)
              s2 == LIST_INSERT_HEAD(s1, new_object, r)
          IN vm_reserv_set_object(s2, r, new_object,
                                  IdxSub(s2.rv[r].pindex, old_object_offset))
     ELSE s

\* vm_reserv_break_all with every trylock succeeding
RECURSIVE break_all_loop(_, _, _)
break_all_loop(s, object, n) ==
  LET r == s.lh_first[object]
  IN IF r = NULL \/ s.halt # "" THEN s
     ELSE IF n = 0 THEN Fault(s, "break_all never returns")
     ELSE LET s1 == KASSERT(s, s.rv[r].object = object, "break_all: reserv is corrupted")
              s2 == IF InPartpop(s, r) THEN vm_reserv_lru_dequeue(s1, r) ELSE s1
          IN break_all_loop(vm_reserv_break(s2, r, NULL), object, n - 1)

vm_reserv_break_all(s, object) == break_all_loop(s, object, Fuel)

\* the second TAILQ_FOREACH_SAFE of vm_reserv_reclaim_inactive, every trylock succeeding
RECURSIVE reclaim_active_loop(_, _, _)
reclaim_active_loop(s, r, n) ==
  IF r = NULL THEN [s |-> s, ret |-> FALSE]
  ELSE IF n = 0 THEN [s |-> Fault(s, "reclaim_inactive never returns"), ret |-> FALSE]
  ELSE IF Flag(s, r, VM_RESERV_F_MARKER)
  THEN reclaim_active_loop(s, s.tqe_next[r], n - 1)
  ELSE [s |-> vm_reserv_reclaim(s, r), ret |-> TRUE]

\* vm_reserv_reclaim_inactive that starts with the active queue
reclaim_inactive_active_first(s) ==
  LET res == reclaim_active_loop(s, s.tqh_first[ACTQ], Fuel)
  IN IF ~res.ret /\ res.s.halt = "" /\ s.tqh_first[INACTQ] # NULL
     THEN [s |-> vm_reserv_reclaim(s, s.tqh_first[INACTQ]), ret |-> TRUE]
     ELSE res
vm_reserv_reclaim_inactive(s) ==
  IF s.tqh_first[INACTQ] # NULL
  THEN [s |-> vm_reserv_reclaim(s, s.tqh_first[INACTQ]), ret |-> TRUE]
  ELSE reclaim_active_loop(s, s.tqh_first[ACTQ], Fuel)

\* the TAILQ_FOREACH_FROM_SAFE of vm_reserv_scan; busy are the records whose
\* trylock fails; the result is the state, and the element the loop stopped at
RECURSIVE scan_loop(_, _, _, _, _)
scan_loop(s, r, target, n, busy) ==
  IF r = NULL \/ target = 0 THEN [s |-> s, rv |-> r]
  ELSE IF n = 0 THEN [s |-> Fault(s, "scan never returns"), rv |-> r]
  ELSE LET tmp == s.tqe_next[r]
       IN IF Flag(s, r, VM_RESERV_F_MARKER) \/ r \in busy
          THEN scan_loop(s, tmp, target, n - 1, busy)
          ELSE IF s.rv[r].actcnt - RV_DEC <= 0
          THEN LET s1 == vm_reserv_lru_dequeue(s, r)
                   s2 == TAILQ_INSERT_TAIL(s1, INACTQ, r)
                   s3 == [s2 EXCEPT !.rv[r].flags = @ \cup {VM_RESERV_F_INACTIVE},
                                    !.rv[r].actcnt = 0]
               IN scan_loop(s3, tmp, target - 1, n - 1, busy)
          ELSE scan_loop([s EXCEPT !.rv[r].actcnt = @ - RV_DEC], tmp, target, n - 1, busy)

\* "Update the placeholder."
scan_place_marker(s, r) ==
  LET s1 == TAILQ_REMOVE(s, ACTQ, Marker)
  IN IF r # NULL
     THEN TAILQ_INSERT_BEFORE(s1, r, Marker)
     ELSE TAILQ_INSERT_HEAD(s1, ACTQ, Marker)

\* vm_reserv_scan while the mutexes of the records busy are held by others
scan_trylock(s, target, busy) ==
  LET from == IF s.tqe_next[Marker] # NULL
              THEN s.tqe_next[Marker] ELSE s.tqh_first[ACTQ]
      l == scan_loop(s, from, target, Fuel, busy)
  IN IF l.s.halt # "" THEN l.s ELSE scan_place_marker(l.s, l.rv)

\* vm_reserv_scan with every trylock succeeding
vm_reserv_scan(s, target) == scan_trylock(s, target, {})

\* while (lo == 0 && ++i < NPOPMAP) lo = ffsl(~rv->popmap[i]);
RECURSIVE contig_next_free(_, _, _)
contig_next_free(popmap, i, lo) ==
  IF lo # 0 THEN [i |-> i, lo |-> lo]
  ELSE IF i + 1 < NPOPMAP
  THEN contig_next_free(popmap, i + 1, ffsl(WNot(popmap[i + 1])))
  ELSE [i |-> NPOPMAP, lo |-> 0]

\* while (hi == 0 && ++i < NPOPMAP) { if (... >= size) reclaim; hi = ffsl(rv->popmap[i]); }
RECURSIVE contig_next_used(_, _, _, _, _)
contig_next_used(popmap, i, hi, next_free, size) ==
  IF hi # 0 THEN [i |-> i, hi |-> hi, hit |-> FALSE]
  ELSE IF i + 1 < NPOPMAP
  THEN IF (NBPOPMAP * (i + 1) - next_free) * PAGE_SIZE >= size
       THEN [i |-> i + 1, hi |-> 0, hit |-> TRUE]
       ELSE contig_next_used(popmap, i + 1, ffsl(popmap[i + 1]), next_free, size)
  ELSE [i |-> NPOPMAP, hi |-> 0, hit |-> FALSE]

\* the do ... while of vm_reserv_reclaim_contig over one reservation, from
\* word i and bit hi: TRUE when it holds a free run that meets the request
RECURSIVE contig_search(_, _, _, _, _, _, _, _)
contig_search(popmap, pages, i, hi, size, high, alignment, boundary) ==
  LET f == contig_next_free(popmap, i, ffsl(WNot(WOr(LowMask(hi), popmap[i]))))
      lo == f.lo - 1
      next_free == NBPOPMAP * f.i + lo
      pa == VM_PAGE_TO_PHYS(pages + next_free)
      u == contig_next_used(popmap, f.i, ffsl(WAnd(popmap[f.i], WNot(LowMask(lo)))),
                            next_free, size)
      hi2 == IF u.i # NPOPMAP THEN u.hi - 1 ELSE u.hi
  IN IF f.i = NPOPMAP THEN FALSE
     ELSE IF pa + size > high THEN FALSE
     ELSE IF Misaligned(pa, alignment) \/ Crosses(pa, size, boundary)
     THEN IF lo + 1 >= NBPOPMAP
          THEN f.i + 1 < NPOPMAP
               /\ contig_search(popmap, pages, f.i + 1, 0, size, high, alignment, boundary)
          ELSE contig_search(popmap, pages, f.i, lo + 1, size, high, alignment, boundary)
     ELSE IF u.hit THEN TRUE
     ELSE IF (NBPOPMAP * u.i + hi2 - next_free) * PAGE_SIZE >= size THEN TRUE
     ELSE u.i < NPOPMAP
          /\ contig_search(popmap, pages, u.i, hi2, size, high, alignment, boundary)

\* the TAILQ_FOREACH of vm_reserv_reclaim_contig over the inactive queue; the
\* reservation it picks is reclaimed as it is, no reservation mutex taken
RECURSIVE reclaim_contig_loop(_, _, _, _, _, _, _, _)
reclaim_contig_loop(s, r, n, size, low, high, alignment, boundary) ==
  IF r = NULL THEN [s |-> s, ret |-> FALSE, rv |-> NULL]
  ELSE IF n = 0
  THEN [s |-> Fault(s, "reclaim_contig never returns"), ret |-> FALSE, rv |-> NULL]
  ELSE LET pages == s.rv[r].pages
           last == VM_PAGE_TO_PHYS(pages + VM_LEVEL_0_NPAGES - 1)
           pa == VM_PAGE_TO_PHYS(pages)
           low_index == (low + (PAGE_SIZE - 1) - pa) \div PAGE_SIZE
           i == IF pa < low THEN low_index \div NBPOPMAP ELSE 0
           hi == IF pa < low THEN low_index % NBPOPMAP ELSE 0
       IN IF last + PAGE_SIZE - size < low \/ pa + size > high
          THEN reclaim_contig_loop(s, s.tqe_next[r], n - 1, size, low, high,
                                   alignment, boundary)
          ELSE IF contig_search(s.rv[r].popmap, pages, i, hi, size, high,
                                alignment, boundary)
          THEN [s |-> vm_reserv_reclaim(s, r), ret |-> TRUE, rv |-> r]
          ELSE reclaim_contig_loop(s, s.tqe_next[r], n - 1, size, low, high,
                                   alignment, boundary)

vm_reserv_reclaim_contig(s, npages, low, high, alignment, boundary) ==
  IF npages > VM_LEVEL_0_NPAGES - 1 THEN [s |-> s, ret |-> FALSE, rv |-> NULL]
  ELSE reclaim_contig_loop(s, s.tqh_first[INACTQ], Fuel, npages * PAGE_SIZE,
                           low, high, alignment, boundary)


(***************************************************************************)
(* Boot.  vm_reserv_startup zeroes the array; vm_reserv_init gives a       *)
(* record its pages when a physical segment holds its whole superpage, and *)
(* puts the scan marker at the head of the active queue.                   *)
(***************************************************************************)
ZeroRv ==
  [object |-> NULL, pindex |-> 0, pages |-> NULL, seq |-> 0, popcnt |-> 0,
   actcnt |-> 0, flags |-> {}, popmap |-> EmptyPopmap]

\* the state after vm_reserv_init, for a segment of nvalid superpages from address 0
\* and the given objects
vm_reserv_init(nvalid, objects) ==
  LET z == [rv |-> [e \in Elems |->
                      IF e \in Rvs /\ e < nvalid
                      THEN [ZeroRv EXCEPT !.pages = e * VM_LEVEL_0_NPAGES]
                      ELSE IF e = Marker
                      THEN [ZeroRv EXCEPT !.flags = {VM_RESERV_F_MARKER, VM_RESERV_F_ACTIVE}]
                      ELSE ZeroRv],
            tqh_first |-> [q \in Queues |-> NULL],
            tqh_last |-> [q \in Queues |-> TqhAddr(q)],
            tqe_next |-> [e \in Elems |-> NULL],
            tqe_prev |-> [e \in Elems |-> NilAddr],
            lh_first |-> [o \in Objs |-> NULL],
            le_next |-> [e \in Elems |-> NULL],
            le_prev |-> [e \in Elems |-> NilAddr],
            obj |-> objects,
            pg |-> [p \in Pages |-> [object |-> NULL, pindex |-> 0]],
            psind |-> [r \in Rvs |-> 0],
            phys_free |-> {p \in Pages : p < nvalid * VM_LEVEL_0_NPAGES},
            cnt |-> [broken |-> 0, reclaimed |-> 0],
            chk |-> "",
            halt |-> ""]
  IN TAILQ_INSERT_HEAD(z, ACTQ, Marker)

Object(size, type, backing, color) ==
  [size |-> size, type |-> type, backing_object |-> backing, pg_color |-> color]
\* what a boot hands over: the superpages of the physical segment and the
\* objects the callers work on.  Either one superpage and two objects, a vnode
\* whose size is no multiple of the superpage and an anonymous object of colour
\* ShadowOffset (what a shadow at that offset gets), or NBoot superpages and
\* one anonymous object (the other is empty).
ShadowOffset == 1
Machines ==
  {[nvalid |-> 1,
    objects |-> [o \in Objs |-> IF o = 1 THEN Object(MaxNpages, OBJT_VNODE, NULL, 0)
                                ELSE Object(8, OBJT_DEFAULT, NULL, ShadowOffset)]],
   [nvalid |-> NBoot,
    objects |-> [o \in Objs |-> IF o = 1 THEN Object(MaxNpages, OBJT_DEFAULT, NULL, 0)
                                ELSE Object(0, OBJT_DEFAULT, NULL, 0)]]}

\* no thread is inside an operation
Idle ==
  [ba |-> [pc |-> "idle", object |-> NULL, rv |-> NULL],
   ri |-> [pc |-> "idle", flag |-> 0, rv |-> NULL],
   fp |-> [pc |-> "idle", m |-> NULL, arm |-> ""]]

\* the variables hold the state s, and no thread is inside an operation
Start(s) ==
  /\ rv = s.rv
  /\ tqh_first = s.tqh_first
  /\ tqh_last = s.tqh_last
  /\ tqe_next = s.tqe_next
  /\ tqe_prev = s.tqe_prev
  /\ lh_first = s.lh_first
  /\ le_next = s.le_next
  /\ le_prev = s.le_prev
  /\ obj = s.obj
  /\ pg = s.pg
  /\ psind = s.psind
  /\ phys_free = s.phys_free
  /\ halt = s.halt
  /\ mtx = ""
  /\ rvlock = [l \in 0 .. RV_LOCK_COUNT - 1 |-> ""]
  /\ thr = Idle

\* the state s of the reservation system, no lock held, the threads as t
StartWith(s, t) ==
  /\ rv = s.rv
  /\ tqh_first = s.tqh_first
  /\ tqh_last = s.tqh_last
  /\ tqe_next = s.tqe_next
  /\ tqe_prev = s.tqe_prev
  /\ lh_first = s.lh_first
  /\ le_next = s.le_next
  /\ le_prev = s.le_prev
  /\ obj = s.obj
  /\ pg = s.pg
  /\ psind = s.psind
  /\ phys_free = s.phys_free
  /\ halt = s.halt
  /\ mtx = ""
  /\ rvlock = [l \in 0 .. RV_LOCK_COUNT - 1 |-> ""]
  /\ thr = t

Init ==
  /\ \E k \in Machines : Start(vm_reserv_init(k.nvalid, k.objects))

Running == halt = ""

\* vm_phys_alloc_pages(VM_FREEPOOL_DEFAULT, VM_LEVEL_0_ORDER): the free aligned
\* run of lowest address, NULL when there is none
vm_phys_alloc_pages(s) ==
  LET runs == {p \in Pages : /\ p % VM_LEVEL_0_NPAGES = 0
                             /\ Run(p, VM_LEVEL_0_NPAGES) \subseteq s.phys_free}
  IN IF runs = {} THEN NULL ELSE SetMin(runs)

PageInsert(s, m, object, pindex) ==
  [s EXCEPT !.pg[m] = [object |-> object, pindex |-> pindex]]
PageRemove(s, m) ==
  [s EXCEPT !.pg[m] = [object |-> NULL, pindex |-> 0]]

\* vm_page_alloc: the caller holds the object lock, pindex is not resident,
\* mpred is the page before it; the page returned becomes resident
AllocPage(object, pindex) ==
  /\ Running
  /\ \A p \in Pages : ~(pg[p].object = object /\ pg[p].pindex = pindex)
  /\ LET res == vm_reserv_alloc_page(St, object, pindex,
                                     MemqPred(St, object, pindex),
                                     vm_phys_alloc_pages(St))
     IN Commit(IF res.m # NULL
               THEN PageInsert(res.s, res.m, object, pindex)
               ELSE res.s)

\* for (i = 0; i < npages; i++) the page m + i becomes resident at pindex + i
PagesInsert(s, m, object, pindex, npages) ==
  [s EXCEPT !.pg = [p \in Pages |->
                      IF p \in Run(m, npages)
                      THEN [object |-> object, pindex |-> pindex + (p - m)]
                      ELSE @[p]]]

\* vm_page_alloc_contig: the caller holds the object lock, the range lies in
\* the object and no page of [pindex, pindex + npages) is resident
AllocContig(object, pindex, npages, alignment, boundary) ==
  /\ Running
  /\ pindex + npages <= obj[object].size
  /\ \A p \in Pages : pg[p].object = object =>
                          pg[p].pindex \notin pindex .. pindex + npages - 1
  /\ LET res == vm_reserv_alloc_contig(St, object, pindex, npages, 0, PhysTop,
                                       alignment, boundary,
                                       MemqPred(St, object, pindex))
     IN Commit(IF res.m # NULL
               THEN PagesInsert(res.s, res.m, object, pindex, npages)
               ELSE res.s)

\* vm_page_free_toq: the page leaves its object; vm_phys takes it when the
\* reservation layer does not
FreePage(m) ==
  /\ Running
  /\ pg[m].object # NULL
  /\ LET res == vm_reserv_free_page(St, m)
         s1 == PageRemove(res.s, m)
     IN Commit(IF res.ret THEN s1 ELSE vm_phys_free_pages(s1, m, 0))

BreakAll(object) ==
  /\ Running
  /\ Commit(vm_reserv_break_all(St, object))

ReclaimInactive ==
  /\ Running
  /\ LET res == vm_reserv_reclaim_inactive(St)
     IN Commit(res.s)

\* vm_page_rename followed by vm_reserv_rename: a page of the backing object
\* moves into its shadow
Rename(m, new_object, old_object, old_object_offset) ==
  /\ Running
  /\ new_object # old_object
  /\ pg[m].object = old_object
  /\ pg[m].pindex >= old_object_offset
  /\ (obj[old_object].pg_color + old_object_offset) % VM_LEVEL_0_NPAGES
       = obj[new_object].pg_color % VM_LEVEL_0_NPAGES
  /\ PageAt(St, new_object, pg[m].pindex - old_object_offset) = NULL
  /\ pg[m].pindex - old_object_offset < obj[new_object].size
  /\ LET s1 == PageInsert(St, m, new_object, pg[m].pindex - old_object_offset)
         s2 == vm_reserv_rename(s1, m, new_object, old_object, old_object_offset)
     IN Commit(s2)

Scan(target) ==
  /\ Running
  /\ Commit(vm_reserv_scan(St, target))

PindexInputs == 0 .. MaxPindex
\* <<alignment, boundary>>
ContigInputs == {<<PAGE_SIZE, 0>>, <<VM_LEVEL_0_SIZE, VM_LEVEL_0_SIZE>>}
OffsetInputs == {ShadowOffset}

Next ==
  \/ \E object \in Objs, pindex \in PindexInputs : AllocPage(object, pindex)
  \/ \E object \in Objs, pindex \in PindexInputs, npages \in 1 .. MaxNpages,
        c \in ContigInputs : AllocContig(object, pindex, npages, c[1], c[2])
  \/ \E m \in Pages : FreePage(m)
  \/ \E object \in Objs : BreakAll(object)
  \/ ReclaimInactive
  \/ \E m \in Pages, new_object \in Objs, old_object \in Objs,
        offset \in OffsetInputs : Rename(m, new_object, old_object, offset)
  \/ \E target \in 0 .. MaxTarget : Scan(target)

Spec == Init /\ [][Next]_vars

(***************************************************************************)
(* The aging scan among several reservations: every element of the array   *)
(* has its superpage, one anonymous object spans them all, and the callers *)
(* allocate single pages at the page indices LruPindexInputs, the run      *)
(* LruContigInput, and free the pages LruFreeInputs while the page daemon  *)
(* scans with target 1.                                                    *)
(***************************************************************************)
LruPindexInputs == {0, 1, 4, 5, 8, 12}
LruFreeInputs == {0, 1, 12}
\* <<pindex, npages>> of the one run asked of vm_reserv_alloc_contig
LruContigInput == <<13, 3>>
LruObjects ==
  [o \in Objs |-> IF o = 1
                  THEN Object(NRes * VM_LEVEL_0_NPAGES, OBJT_DEFAULT, NULL, 0)
                  ELSE Object(0, OBJT_DEFAULT, NULL, 0)]
InitLru == Start(vm_reserv_init(NRes, LruObjects))
NextLru ==
  \/ \E pindex \in LruPindexInputs : AllocPage(1, pindex)
  \/ AllocContig(1, LruContigInput[1], LruContigInput[2], PAGE_SIZE, 0)
  \/ \E m \in LruFreeInputs : FreePage(m)
  \/ Scan(1)
SpecLru == InitLru /\ [][NextLru]_vars

(***************************************************************************)
(* Objects that change size.  The owner of an object may shrink or grow    *)
(* it between calls; object 1 is a vnode, object 2 an anonymous object     *)
(* of colour ShadowOffset that it backs.                                   *)
(***************************************************************************)
\* object->size = size, the pages at and past the new size having been freed
SetSize(object, size) ==
  /\ Running
  /\ obj[object].size # size
  /\ \A p \in Pages : pg[p].object = object => pg[p].pindex < size
  /\ Commit([St EXCEPT !.obj[object].size = size])

VnodePindexInputs == 0 .. 2 * VM_LEVEL_0_NPAGES - 1
SizeInputs == {VM_LEVEL_0_NPAGES - 1, VM_LEVEL_0_NPAGES + 2, 2 * VM_LEVEL_0_NPAGES}
\* <<pindex, npages>> of the runs asked of vm_reserv_alloc_contig
VnodeContigInputs ==
  {0, VM_LEVEL_0_NPAGES - 1} \X {VM_LEVEL_0_NPAGES, VM_LEVEL_0_NPAGES + 1}
VnodeObjects ==
  [o \in Objs |-> IF o = 1
                  THEN Object(2 * VM_LEVEL_0_NPAGES, OBJT_VNODE, NULL, 0)
                  ELSE Object(2 * VM_LEVEL_0_NPAGES, OBJT_DEFAULT, 1, ShadowOffset)]
InitVnode == Start(vm_reserv_init(NBoot, VnodeObjects))
NextVnode ==
  \/ \E object \in Objs, pindex \in VnodePindexInputs : AllocPage(object, pindex)
  \/ \E object \in Objs, a \in VnodeContigInputs, c \in ContigInputs :
       AllocContig(object, a[1], a[2], c[1], c[2])
  \/ \E m \in Pages : FreePage(m)
  \/ \E object \in Objs, size \in SizeInputs : SetSize(object, size)
SpecVnode == InitVnode /\ [][NextVnode]_vars

(***************************************************************************)
(* Threads.  vm_reserv_break_all, vm_reserv_reclaim_inactive and           *)
(* vm_reserv_free_page each run in a thread of their own, one step from    *)
(* one lock operation to the next.  A thread that waits for a mutex takes  *)
(* its step when the mutex is free.                                        *)
(***************************************************************************)
shared == <<rv, tqh_first, tqh_last, tqe_next, tqe_prev, lh_first, le_next,
            le_prev, obj, pg, psind, phys_free, halt>>
RV_LOCKPTR(r) == r % RV_LOCK_COUNT
Quiet == thr = Idle
\* the object lock that the caller of an operation in progress holds
ObjectLocked(o) ==
  \/ thr.ba.pc # "idle" /\ thr.ba.object = o
  \/ thr.fp.pc # "idle" /\ pg[thr.fp.m].object = o

\* vm_reserv_break_all: mtx_lock(&vm_page_queue_free_mtx)
BaCall(object) ==
  /\ Running
  /\ thr.ba.pc = "idle"
  /\ ~ObjectLocked(object)
  /\ mtx = ""
  /\ mtx' = "ba"
  /\ thr' = [thr EXCEPT !.ba = [pc |-> "loop", object |-> object, rv |-> NULL]]
  /\ UNCHANGED <<shared, rvlock>>

\* BaLoop that keeps the free-queue lock while it waits for the mutex
BaLoop_hold ==
  /\ Running
  /\ thr.ba.pc = "loop"
  /\ LET r == lh_first[thr.ba.object]
     IN IF r = NULL
        THEN /\ mtx' = ""
             /\ thr' = [thr EXCEPT !.ba.pc = "done"]
             /\ UNCHANGED rvlock
        ELSE IF rvlock[RV_LOCKPTR(r)] = ""
        THEN /\ rvlock' = [rvlock EXCEPT ![RV_LOCKPTR(r)] = "ba"]
             /\ thr' = [thr EXCEPT !.ba.pc = "quick", !.ba.rv = r]
             /\ UNCHANGED mtx
        ELSE /\ thr' = [thr EXCEPT !.ba.pc = "wait", !.ba.rv = r]
             /\ UNCHANGED <<mtx, rvlock>>
  /\ UNCHANGED shared
\* while ((rv = LIST_FIRST(&object->rvq)) != NULL) and the trylock; the last
\* mtx_unlock when the list is empty
BaLoop ==
  /\ Running
  /\ thr.ba.pc = "loop"
  /\ LET r == lh_first[thr.ba.object]
     IN IF r = NULL
        THEN /\ mtx' = ""
             /\ thr' = [thr EXCEPT !.ba.pc = "done"]
             /\ UNCHANGED rvlock
        ELSE IF rvlock[RV_LOCKPTR(r)] = ""
        THEN /\ rvlock' = [rvlock EXCEPT ![RV_LOCKPTR(r)] = "ba"]
             /\ thr' = [thr EXCEPT !.ba.pc = "quick", !.ba.rv = r]
             /\ UNCHANGED mtx
        ELSE /\ mtx' = ""
             /\ thr' = [thr EXCEPT !.ba.pc = "wait", !.ba.rv = r]
             /\ UNCHANGED rvlock
  /\ UNCHANGED shared

\* vm_reserv_lock(rv), the free-queue lock dropped
BaWait ==
  /\ Running
  /\ thr.ba.pc = "wait"
  /\ rvlock[RV_LOCKPTR(thr.ba.rv)] = ""
  /\ rvlock' = [rvlock EXCEPT ![RV_LOCKPTR(thr.ba.rv)] = "ba"]
  /\ thr' = [thr EXCEPT !.ba.pc = "relock"]
  /\ UNCHANGED <<shared, mtx>>

\* mtx_lock; next = LIST_FIRST(&object->rvq); if (rv != next) ...  With next
\* NULL, RV_LOCKPTR(next) is computed from a null pointer: the comparison
\* may come out either way
BaRelock ==
  /\ Running
  /\ thr.ba.pc = "relock"
  /\ mtx = ""
  /\ mtx' = "ba"
  /\ LET r == thr.ba.rv
         next == lh_first[thr.ba.object]
     IN \E same \in IF next = NULL THEN BOOLEAN
                    ELSE {RV_LOCKPTR(next) = RV_LOCKPTR(r)} :
          IF r = next
          THEN /\ thr' = [thr EXCEPT !.ba.pc = "quick"]
               /\ UNCHANGED rvlock
          ELSE IF ~same
          THEN /\ rvlock' = [rvlock EXCEPT ![RV_LOCKPTR(r)] = ""]
               /\ thr' = [thr EXCEPT !.ba.pc = "loop", !.ba.rv = NULL]
          ELSE /\ thr' = [thr EXCEPT !.ba.pc = "quick", !.ba.rv = next]
               /\ UNCHANGED rvlock
  /\ UNCHANGED shared

\* quick: ... vm_reserv_break(rv, NULL); then the next reservation under the
\* same mutex, or vm_reserv_unlock(rv)
BaQuick ==
  /\ Running
  /\ thr.ba.pc = "quick"
  /\ LET r == thr.ba.rv
     IN IF r = NULL
        THEN /\ CommitSt(Fault(St, "null pointer dereference"))
             /\ UNCHANGED <<rvlock, thr>>
        ELSE LET s1 == IF InPartpop(St, r) THEN vm_reserv_lru_dequeue(St, r) ELSE St
                 s2 == vm_reserv_break(s1, r, NULL)
                 next == s2.lh_first[thr.ba.object]
             IN /\ CommitSt(s2)
                /\ IF next # NULL /\ RV_LOCKPTR(next) = RV_LOCKPTR(r)
                   THEN /\ thr' = [thr EXCEPT !.ba.rv = next]
                        /\ UNCHANGED rvlock
                   ELSE /\ rvlock' = [rvlock EXCEPT ![RV_LOCKPTR(r)] = ""]
                        /\ thr' = [thr EXCEPT !.ba.pc = "loop", !.ba.rv = NULL]
  /\ UNCHANGED mtx

\* vm_reserv_break_all has returned; its caller goes on
BaReturn ==
  /\ Running
  /\ thr.ba.pc = "done"
  /\ thr' = [thr EXCEPT !.ba = Idle.ba]
  /\ UNCHANGED <<shared, mtx, rvlock>>

\* the caller of vm_reserv_reclaim_inactive takes the free-queue lock
RiCall ==
  /\ Running
  /\ thr.ri.pc = "idle"
  /\ mtx = ""
  /\ mtx' = "ri"
  /\ thr' = [thr EXCEPT !.ri.pc = "restart"]
  /\ UNCHANGED <<shared, rvlock>>

\* vm_reserv_reclaim_inactive returns to its caller, which releases the
\* free-queue lock
RiReturn(s) ==
  /\ CommitSt(IF mtx = "ri" THEN s
              ELSE Fault(s, "vm_page_queue_free_mtx unlocked by a thread that does not own it"))
  /\ mtx' = IF mtx = "ri" THEN "" ELSE mtx
  /\ thr' = [thr EXCEPT !.ri = Idle.ri]

\* restart: the two TAILQ_FOREACH_SAFE up to the first trylock; when it
\* succeeds, the reclaim and the return
RiRestart ==
  /\ Running
  /\ thr.ri.pc = "restart"
  /\ LET inact == tqh_first[INACTQ]
         act == QueueSeq(St, ACTQ)
         cands == {i \in 1 .. Len(act) : ~Flag(St, act[i], VM_RESERV_F_MARKER)}
         r == IF inact # NULL THEN inact
              ELSE IF cands # {} THEN act[SetMin(cands)] ELSE NULL
         flag == IF inact # NULL THEN VM_RESERV_F_INACTIVE ELSE VM_RESERV_F_ACTIVE
     IN IF r = NULL
        THEN /\ RiReturn(IF Len(act) >= Fuel
                         THEN Fault(St, "reclaim_inactive never returns") ELSE St)
             /\ UNCHANGED rvlock
        ELSE IF rvlock[RV_LOCKPTR(r)] = ""
        THEN /\ RiReturn(vm_reserv_reclaim(St, r))
             /\ UNCHANGED rvlock
        ELSE /\ CommitSt(IF mtx = "ri" THEN St
                         ELSE Fault(St, "vm_page_queue_free_mtx unlocked by a thread that does not own it"))
             /\ mtx' = IF mtx = "ri" THEN "" ELSE mtx
             /\ thr' = [thr EXCEPT !.ri = [pc |-> "wait", flag |-> flag, rv |-> r]]
             /\ UNCHANGED rvlock

\* vm_reserv_lock(rv); if the flag is gone, vm_reserv_unlock(rv); goto restart
RiWait ==
  /\ Running
  /\ thr.ri.pc = "wait"
  /\ rvlock[RV_LOCKPTR(thr.ri.rv)] = ""
  /\ IF thr.ri.flag \notin rv[thr.ri.rv].flags
     THEN /\ thr' = [thr EXCEPT !.ri = [pc |-> "restart", flag |-> 0, rv |-> NULL]]
          /\ UNCHANGED rvlock
     ELSE /\ rvlock' = [rvlock EXCEPT ![RV_LOCKPTR(thr.ri.rv)] = "ri"]
          /\ thr' = [thr EXCEPT !.ri.pc = "relock"]
  /\ UNCHANGED <<shared, mtx>>

\* mtx_lock(&vm_page_queue_free_mtx); vm_reserv_reclaim(rv);
\* vm_reserv_unlock(rv); return (TRUE);
RiRelock ==
  /\ Running
  /\ thr.ri.pc = "relock"
  /\ mtx = ""
  /\ CommitSt(vm_reserv_reclaim(St, thr.ri.rv))
  /\ rvlock' = [rvlock EXCEPT ![RV_LOCKPTR(thr.ri.rv)] = ""]
  /\ thr' = [thr EXCEPT !.ri = Idle.ri]
  /\ UNCHANGED mtx

\* vm_reserv_free_page up to its test of rv->object; on FALSE the caller
\* hands the page to the physical allocator
FpCall(m) ==
  /\ Running
  /\ thr.fp.pc = "idle"
  /\ pg[m].object # NULL
  /\ ~ObjectLocked(pg[m].object)
  /\ IF rv[vm_reserv_from_page(m)].object = NULL
     THEN /\ mtx = ""
          /\ CommitSt(vm_phys_free_pages(PageRemove(St, m), m, 0))
          /\ UNCHANGED thr
     ELSE /\ thr' = [thr EXCEPT !.fp = [pc |-> "lock", m |-> m, arm |-> ""]]
          /\ UNCHANGED shared
  /\ UNCHANGED <<mtx, rvlock>>

\* vm_reserv_lock(rv)
FpLock ==
  /\ Running
  /\ thr.fp.pc = "lock"
  /\ rvlock[RV_LOCKPTR(vm_reserv_from_page(thr.fp.m))] = ""
  /\ rvlock' = [rvlock EXCEPT ![RV_LOCKPTR(vm_reserv_from_page(thr.fp.m))] = "fp"]
  /\ thr' = [thr EXCEPT !.fp.pc = "locked"]
  /\ UNCHANGED <<shared, mtx>>

\* vm_reserv_depopulate up to the mtx_lock of vm_reserv_update_lru; the arm
\* that takes no lock ends the operation
FpDepopulate ==
  /\ Running
  /\ thr.fp.pc = "locked"
  /\ LET m == thr.fp.m
         r == vm_reserv_from_page(m)
         s1 == depopulate_bits(St, r, m - rv[r].pages)
         arm == update_lru_arm(s1, r)
         s2 == update_lru_unlocked(s1, r, RV_DEPOP_STEP)
     IN IF arm = "advance"
        THEN /\ CommitSt(PageRemove(s2, m))
             /\ rvlock' = [rvlock EXCEPT ![RV_LOCKPTR(r)] = ""]
             /\ thr' = [thr EXCEPT !.fp = Idle.fp]
        ELSE /\ CommitSt(s2)
             /\ thr' = [thr EXCEPT !.fp.pc = "mtx", !.fp.arm = arm]
             /\ UNCHANGED rvlock
  /\ UNCHANGED mtx

\* vm_reserv_update_lru from mtx_lock to mtx_unlock; vm_reserv_unlock(rv)
FpUpdateLru ==
  /\ Running
  /\ thr.fp.pc = "mtx"
  /\ mtx = ""
  /\ LET m == thr.fp.m
         r == vm_reserv_from_page(m)
     IN /\ CommitSt(PageRemove(update_lru_locked(St, r, thr.fp.arm), m))
        /\ rvlock' = [rvlock EXCEPT ![RV_LOCKPTR(r)] = ""]
        /\ thr' = [thr EXCEPT !.fp = Idle.fp]
  /\ UNCHANGED mtx

\* <<object, pindex>> of the pages the callers allocate while no thread is
\* inside an operation
ConcAllocInputs == {<<1, 0>>, <<2, 0>>, <<2, VM_LEVEL_0_NPAGES>>}
ConcObjects ==
  [o \in Objs |-> Object(NRes * VM_LEVEL_0_NPAGES, OBJT_DEFAULT, NULL, 0)]
InitConc == Start(vm_reserv_init(NRes, ConcObjects))
NextConc ==
  \/ \E a \in ConcAllocInputs : Quiet /\ AllocPage(a[1], a[2])
  \/ \E object \in Objs : BaCall(object)
  \/ BaLoop
  \/ BaWait
  \/ BaRelock
  \/ BaQuick
  \/ BaReturn
  \/ RiCall
  \/ RiRestart
  \/ RiWait
  \/ RiRelock
  \/ \E m \in Pages : FpCall(m)
  \/ FpLock
  \/ FpDepopulate
  \/ FpUpdateLru
SpecConc == InitConc /\ [][NextConc]_vars

(***************************************************************************)
(* A third set of threads: callers that allocate while nothing else runs,  *)
(* the page daemon's vm_reserv_scan, one thread inside vm_reserv_free_page *)
(* and a vm_page_alloc_contig caller that reaches                          *)
(* vm_reserv_reclaim_contig.  The scan and the contiguous reclaim hold the *)
(* free page queue mutex from entry to return, so each is one step.        *)
(***************************************************************************)
\* the records whose reservation mutex some thread holds
LockedRvs == {r \in Rvs : rvlock[RV_LOCKPTR(r)] # ""}

\* vm_reserv_scan run by the page daemon next to the other threads
ScanTrylock(target) ==
  /\ Running
  /\ mtx = ""
  /\ CommitSt(scan_trylock(St, target, LockedRvs))
  /\ UNCHANGED <<mtx, rvlock, thr>>

\* vm_reserv_reclaim_contig, called with the free page queue mutex held;
\* MPASS(0) is compiled out without INVARIANTS
ReclaimContig(npages, low, high, alignment, boundary) ==
  /\ Running
  /\ mtx = ""
  /\ CommitSt(vm_reserv_reclaim_contig(St, npages, low, high, alignment, boundary).s)
  /\ UNCHANGED <<mtx, rvlock, thr>>

\* <<object, pindex>> of the pages allocated under SpecContig
ContigAllocInputs == {<<1, 0>>, <<1, 1>>, <<2, 0>>}
NextContig ==
  \/ \E a \in ContigAllocInputs : Quiet /\ AllocPage(a[1], a[2])
  \/ ScanTrylock(1)
  \/ \E m \in Pages : FpCall(m)
  \/ FpLock
  \/ FpDepopulate
  \/ FpUpdateLru
  \/ \E npages \in 1 .. 2 : \E c \in ContigInputs :
       ReclaimContig(npages, 0, PhysTop, c[1], c[2])
SpecContig == InitConc /\ [][NextContig]_vars

(***************************************************************************)
(* The sequence counter.  vm_reserv_set_object is seq_write_begin, the     *)
(* stores to pindex and object, seq_write_end; sys/seq.h makes the counter *)
(* a plain integer that begin and end each load and store.  Under SpecSeq  *)
(* the thread inside vm_reserv_free_page and the thread inside             *)
(* vm_reserv_reclaim_contig run vm_reserv_set_object(rv, NULL, ...) one    *)
(* memory access a step; thr.ld holds the value a thread last loaded.      *)
(***************************************************************************)
IdleSeq ==
  [ba |-> Idle.ba, ri |-> Idle.ri, fp |-> Idle.fp,
   rc |-> [pc |-> "idle", rv |-> NULL],
   ld |-> [fp |-> 0, rc |-> 0]]
QuietSeq == thr = IdleSeq

\* the record the thread's vm_reserv_set_object works on
SoRv(t) == IF t = "fp" THEN vm_reserv_from_page(thr.fp.m) ELSE thr.rc.rv
SoPcs == {"begin_load", "begin_store", "object", "end_load", "end_store"}
InSetObject(t) == thr[t].pc \in SoPcs

\* vm_reserv_depopulate of the last page, up to vm_reserv_set_object in the
\* popcnt == 0 arm of vm_reserv_update_lru
FpDepopulateEmpty ==
  /\ Running
  /\ thr.fp.pc = "locked"
  /\ LET m == thr.fp.m
         r == vm_reserv_from_page(m)
         s1 == depopulate_bits(St, r, m - rv[r].pages)
     IN /\ update_lru_arm(s1, r) = "empty"
        /\ CommitSt(s1)
  /\ thr' = [thr EXCEPT !.fp.pc = "begin_load"]
  /\ UNCHANGED <<mtx, rvlock>>

\* vm_reserv_depopulate when pages remain
FpDepopulateSome ==
  /\ thr.fp.pc = "locked"
  /\ update_lru_arm(depopulate_bits(St, vm_reserv_from_page(thr.fp.m),
                                    thr.fp.m - rv[vm_reserv_from_page(thr.fp.m)].pages),
                    vm_reserv_from_page(thr.fp.m)) # "empty"
  /\ FpDepopulate

\* vm_reserv_reclaim_contig with the free page queue mutex held, up to the
\* vm_reserv_set_object of vm_reserv_break; no reservation mutex is taken
RcCall(npages, low, high, alignment, boundary) ==
  /\ Running
  /\ thr.rc.pc = "idle"
  /\ mtx = ""
  /\ LET c == vm_reserv_reclaim_contig(St, npages, low, high, alignment, boundary)
         s1 == KASSERT(St, InPartpop(St, c.rv), "reclaim: reserv not in partpop queues")
     IN /\ c.ret
        /\ CommitSt(break_head(vm_reserv_lru_dequeue(s1, c.rv), c.rv))
        /\ thr' = [thr EXCEPT !.rc = [pc |-> "begin_load", rv |-> c.rv]]
  /\ mtx' = "rc"
  /\ UNCHANGED rvlock

\* the rest of vm_reserv_break, and the return to the caller, who unlocks
RcReturn ==
  /\ Running
  /\ thr.rc.pc = "tail"
  /\ CommitSt(break_tail(St, thr.rc.rv, NULL))
  /\ thr' = [thr EXCEPT !.rc = IdleSeq.rc]
  /\ mtx' = ""
  /\ UNCHANGED rvlock

\* seq_write_begin: the load of *seqp += 1
SoBeginLoad(t) ==
  /\ Running
  /\ thr[t].pc = "begin_load"
  /\ thr' = [thr EXCEPT ![t].pc = "begin_store", !.ld[t] = rv[SoRv(t)].seq]
  /\ UNCHANGED <<shared, mtx, rvlock>>

\* seq_write_begin: the store of *seqp += 1
SoBeginStore(t) ==
  /\ Running
  /\ thr[t].pc = "begin_store"
  /\ CommitSt([St EXCEPT !.rv[SoRv(t)].seq = (thr.ld[t] + 1) % SEQ_MOD])
  /\ thr' = [thr EXCEPT ![t].pc = "object"]
  /\ UNCHANGED <<mtx, rvlock>>

\* rv->object = object, for object == NULL
SoObject(t) ==
  /\ Running
  /\ thr[t].pc = "object"
  /\ CommitSt([St EXCEPT !.rv[SoRv(t)].object = NULL, !.rv[SoRv(t)].pindex = 0])
  /\ thr' = [thr EXCEPT ![t].pc = "end_load"]
  /\ UNCHANGED <<mtx, rvlock>>

\* seq_write_end: the load of *seqp + 1
SoEndLoad(t) ==
  /\ Running
  /\ thr[t].pc = "end_load"
  /\ thr' = [thr EXCEPT ![t].pc = "end_store", !.ld[t] = rv[SoRv(t)].seq]
  /\ UNCHANGED <<shared, mtx, rvlock>>

\* seq_write_end: the store; vm_reserv_free_page goes on to the mtx_lock of
\* vm_reserv_update_lru, vm_reserv_reclaim_contig to the rest of vm_reserv_break
SoEndStore(t) ==
  /\ Running
  /\ thr[t].pc = "end_store"
  /\ CommitSt([St EXCEPT !.rv[SoRv(t)].seq = (thr.ld[t] + 1) % SEQ_MOD])
  /\ thr' = IF t = "fp"
            THEN [thr EXCEPT !.fp.pc = "mtx", !.fp.arm = "empty", !.ld.fp = 0]
            ELSE [thr EXCEPT !.rc.pc = "tail", !.ld.rc = 0]
  /\ UNCHANGED <<mtx, rvlock>>

SoThreads == {"fp", "rc"}
\* <<object, pindex>> of the pages allocated under SpecSeq
SeqAllocInputs == {<<1, 0>>, <<1, 1>>}
InitSeq == StartWith(vm_reserv_init(NRes, ConcObjects), IdleSeq)
NextSeq ==
  \/ \E a \in SeqAllocInputs : QuietSeq /\ AllocPage(a[1], a[2])
  \/ ScanTrylock(1)
  \/ \E m \in Pages : FpCall(m)
  \/ FpLock
  \/ FpDepopulateSome
  \/ FpDepopulateEmpty
  \/ FpUpdateLru
  \/ \E c \in ContigInputs : RcCall(1, 0, PhysTop, c[1], c[2])
  \/ RcReturn
  \/ \E t \in SoThreads : SoBeginLoad(t)
  \/ \E t \in SoThreads : SoBeginStore(t)
  \/ \E t \in SoThreads : SoObject(t)
  \/ \E t \in SoThreads : SoEndLoad(t)
  \/ \E t \in SoThreads : SoEndStore(t)
SpecSeq == InitSeq /\ [][NextSeq]_vars

(***************************************************************************)
(* Aging.  Callers allocate and free pages and the page daemon scans, with *)
(* positive targets only; from some moment on (thr.phase = "age") no page  *)
(* is allocated or freed any more and only the page daemon runs; thr.scans *)
(* counts its calls of vm_reserv_scan from that moment, up to MaxScans.    *)
(***************************************************************************)
IdleAge ==
  [ba |-> Idle.ba, ri |-> Idle.ri, fp |-> Idle.fp, phase |-> "build", scans |-> 0]
\* pindex of the pages allocated to object 1, and the pages freed
AgePindexInputs == {0, 1, 4, 8}
AgeFreeInputs == {0, 1, 4, 8}
\* the last populate or depopulate has happened
Settle ==
  /\ Running
  /\ thr.phase = "build"
  /\ thr' = [thr EXCEPT !.phase = "age"]
  /\ UNCHANGED <<shared, mtx, rvlock>>
\* vm_reserv_scan once no page is allocated or freed any more
ScanAge(target) ==
  /\ Running
  /\ thr.phase = "age"
  /\ thr.scans < MaxScans
  /\ CommitSt(vm_reserv_scan(St, target))
  /\ thr' = [thr EXCEPT !.scans = @ + 1]
  /\ UNCHANGED <<mtx, rvlock>>
InitAge == StartWith(vm_reserv_init(NRes, LruObjects), IdleAge)
NextAge ==
  \/ \E pindex \in AgePindexInputs : thr.phase = "build" /\ AllocPage(1, pindex)
  \/ \E m \in AgeFreeInputs : thr.phase = "build" /\ FreePage(m)
  \/ \E target \in 1 .. MaxTarget : thr.phase = "build" /\ Scan(target)
  \/ Settle
  \/ \E target \in 1 .. MaxTarget : ScanAge(target)
SpecAge == InitAge /\ [][NextAge]_vars

(***************************************************************************)
(* Properties.  A queue or list is what a traversal from its head reaches. *)
(***************************************************************************)
OnQueue(q, r) == r \in SeqSet(QueueSeq(St, q))
OnRvq(o, r) == r \in SeqSet(RvqSeq(St, o))
OnSomeRvq(r) == \E o \in Objs : OnRvq(o, r)
OnSomeQueue(r) == OnQueue(ACTQ, r) \/ OnQueue(INACTQ, r)
\* the last element of a queue, NULL when it is empty
QTail(q) ==
  LET sq == QueueSeq(St, q) IN IF sq = <<>> THEN NULL ELSE sq[Len(sq)]
Partial(r) == rv[r].popcnt > 0 /\ rv[r].popcnt < VM_LEVEL_0_NPAGES
Bound(r) == rv[r].object # NULL
ValidRvs == {r \in Rvs : rv[r].pages # NULL}

\* C1: at every quiescent point a reservation has 0 < popcnt < N exactly
\* when it is linked on exactly one of the two LRU queues, once, and the
\* queue it is on is the one its flag names (ACTIVE or INACTIVE, never both).
C1_LruMembership ==
  Running =>
    \A r \in Rvs :
      /\ Partial(r) <=> (OnQueue(ACTQ, r) # OnQueue(INACTQ, r))
      /\ ~(OnQueue(ACTQ, r) /\ OnQueue(INACTQ, r))
      /\ OnQueue(ACTQ, r) =>
           /\ rv[r].flags = {VM_RESERV_F_ACTIVE}
           /\ Count(QueueSeq(St, ACTQ), r) = 1
      /\ OnQueue(INACTQ, r) =>
           /\ rv[r].flags = {VM_RESERV_F_INACTIVE}
           /\ Count(QueueSeq(St, INACTQ), r) = 1

\* C2: at every quiescent point a valid reservation has popcnt = N exactly
\* when the psind of its first page is 1, and then it is on no LRU queue.
C2_FullIffPsind ==
  Running =>
    \A r \in ValidRvs :
      /\ (rv[r].popcnt = VM_LEVEL_0_NPAGES) <=> (psind[r] = 1)
      /\ rv[r].popcnt = VM_LEVEL_0_NPAGES => ~OnSomeQueue(r)

BreakOf(r, m) ==
  vm_reserv_break(IF InPartpop(St, r) THEN vm_reserv_lru_dequeue(St, r) ELSE St,
                  r, m)
\* the pages a break of r may be told to keep: those whose bit is clear
Keepable(r) ==
  {rv[r].pages + i : i \in {k \in Slots : popmap_is_clear(rv[r].popmap, k)}}

C5_DisjointRanges ==
  Running =>
    \A r1, r2 \in Rvs :
      r1 # r2 /\ Bound(r1) /\ rv[r1].object = rv[r2].object =>
        \/ rv[r1].pindex + VM_LEVEL_0_NPAGES <= rv[r2].pindex
        \/ rv[r2].pindex + VM_LEVEL_0_NPAGES <= rv[r1].pindex
\* two reservations of one object
C5_Witness ==
  /\ Running
  /\ \E r1, r2 \in Rvs : r1 # r2 /\ Bound(r1) /\ rv[r1].object = rv[r2].object


\* what vm_page_alloc may ask of vm_reserv_alloc_page: pindex is not resident
\* in the object; the answer for the true predecessor of pindex
CanAllocPage(object, pindex) ==
  \A p \in Pages : ~(pg[p].object = object /\ pg[p].pindex = pindex)
AllocPageOf(object, pindex) ==
  vm_reserv_alloc_page(St, object, pindex, MemqPred(St, object, pindex),
                       vm_phys_alloc_pages(St))
\* the page res.m is slot `slot` of a reservation bound to (object, pindex -
\* slot), the difference taken as the code takes it, in vm_pindex_t; the bit of the slot was clear and is set, popcnt grew by 1, and no
\* other bit of any population map changed
AllocPagePost(res, object, pindex, slot) ==
  LET r == vm_reserv_from_page(res.m)
      after == res.s.rv
  IN /\ res.m = after[r].pages + slot
     /\ after[r].object = object
     /\ after[r].pindex = IdxSub(pindex, slot)
     /\ popmap_is_clear(rv[r].popmap, slot)
     /\ popmap_is_set(after[r].popmap, slot)
     /\ after[r].popcnt = rv[r].popcnt + 1
     /\ \A r2 \in Rvs, i \in Slots :
          <<r2, i>> # <<r, slot>> =>
            (popmap_is_set(after[r2].popmap, i) <=> popmap_is_set(rv[r2].popmap, i))
\* every page that an object holds through a reservation has its bit set
HeldBitsSet ==
  \A p \in Pages :
    LET r == vm_reserv_from_page(p)
        i == (pg[p].pindex - rv[r].pindex) % VM_LEVEL_0_NPAGES
    IN pg[p].object # NULL /\ rv[r].object = pg[p].object =>
         /\ i = p - rv[r].pages
         /\ popmap_is_set(rv[r].popmap, i)

\* C6 as stated: every successful alloc_page(object, pindex, mpred) returns
\* slot pindex mod N of a reservation bound to (object, pindex - pindex mod N),
\* sets that one clear bit and raises popcnt by 1, changing no other bit; and
\* every page held through a reservation has its bit set.
C6_SlotIsPindexModN ==
  Running =>
    /\ HeldBitsSet
    /\ \A object \in Objs, pindex \in PindexInputs :
         CanAllocPage(object, pindex) /\ AllocPageOf(object, pindex).m # NULL =>
           AllocPagePost(AllocPageOf(object, pindex), object, pindex,
                         pindex % VM_LEVEL_0_NPAGES)
\* C6 with the object's colour: the slot is (pg_color + pindex) mod N and the
\* reservation is bound to (object, pindex - slot); the rest as stated.
C6_SlotIsColouredIndex ==
  Running =>
    /\ HeldBitsSet
    /\ \A object \in Objs, pindex \in PindexInputs :
         CanAllocPage(object, pindex) /\ AllocPageOf(object, pindex).m # NULL =>
           AllocPagePost(AllocPageOf(object, pindex), object, pindex,
                         (obj[object].pg_color + pindex) % VM_LEVEL_0_NPAGES)
\* an object of colour other than 0 holds a page through a reservation, and
\* a further alloc_page finds that reservation
C6_Witness ==
  /\ Running
  /\ \E object \in Objs, pindex \in PindexInputs :
       /\ obj[object].pg_color % VM_LEVEL_0_NPAGES # 0
       /\ \E p \in Pages : /\ pg[p].object = object
                           /\ rv[vm_reserv_from_page(p)].object = object
       /\ CanAllocPage(object, pindex)
       /\ AllocPageOf(object, pindex).m # NULL
       /\ AllocPageOf(object, pindex).how = "found"

\* r was below N pages and is full after the step; r was full and has N - 1
Promoted(r) ==
  rv[r].popcnt < VM_LEVEL_0_NPAGES /\ rv'[r].popcnt = VM_LEVEL_0_NPAGES
Demoted(r) ==
  rv[r].popcnt = VM_LEVEL_0_NPAGES /\ rv'[r].popcnt = VM_LEVEL_0_NPAGES - 1

\* C7: the step that fills a reservation sets the psind of its first page to
\* 1 and leaves it on no LRU queue; the step that frees one page of a full
\* reservation clears psind and puts the reservation at the tail of the
\* active queue with actcnt = 2; psind changes in no other step.
C7_PromoteDemote ==
  [][\A r \in ValidRvs :
       /\ Promoted(r) /\ halt' = "" => psind'[r] = 1 /\ ~OnSomeQueue(r)'
       /\ Demoted(r) /\ halt' = "" =>
            /\ psind'[r] = 0
            /\ QTail(ACTQ)' = r
            /\ rv'[r].flags = {VM_RESERV_F_ACTIVE}
            /\ rv'[r].actcnt = 2
       /\ psind'[r] # psind[r] => Promoted(r) \/ Demoted(r)]_vars


\* C8: when alloc_page finds no reservation covering pindex and the physical
\* allocator supplies a run, the record of that run is bound to (object,
\* pindex - pindex mod N), is on the object's list, has popcnt = 1 with only
\* bit pindex mod N set, carries the flag ACTIVE, is the tail of the active
\* queue and has actcnt = 2.
C8_FreshReservation ==
  Running =>
    \A object \in Objs, pindex \in PindexInputs \cup LruPindexInputs :
      CanAllocPage(object, pindex) /\ AllocPageOf(object, pindex).how = "new" =>
        LET a == AllocPageOf(object, pindex).s
            r == AllocPageOf(object, pindex).rv
            slot == pindex % VM_LEVEL_0_NPAGES
            act == QueueSeq(a, ACTQ)
        IN /\ a.rv[r].object = object
           /\ a.rv[r].pindex = pindex - slot
           /\ r \in SeqSet(RvqSeq(a, object))
           /\ a.rv[r].popcnt = 1
           /\ a.rv[r].popmap = popmap_set(EmptyPopmap, slot)
           /\ a.rv[r].flags = {VM_RESERV_F_ACTIVE}
           /\ act # <<>> /\ act[Len(act)] = r
           /\ a.rv[r].actcnt = 2

ReclaimInactiveOf == vm_reserv_reclaim_inactive(St)
\* the records that a step from the current state to the state a unbinds
BrokenBy(a) == {r \in Rvs : Bound(r) /\ a.rv[r].object = NULL}
\* the pages of r whose population bit is clear, and those whose bit is set
ClearPages(r) ==
  {rv[r].pages + i : i \in {k \in Slots : popmap_is_clear(rv[r].popmap, k)}}
SetPages(r) ==
  {rv[r].pages + i : i \in {k \in Slots : popmap_is_set(rv[r].popmap, k)}}
\* in state a the record r is free, on no queue and no list, and of its
\* pages exactly the unpopulated ones went to the physical allocator
BrokenIn(a, r) ==
  /\ a.rv[r].object = NULL
  /\ a.rv[r].popcnt = 0
  /\ a.rv[r].popmap = EmptyPopmap
  /\ a.rv[r].flags = {}
  /\ \A q \in Queues : r \notin SeqSet(QueueSeq(a, q))
  /\ \A o \in Objs : r \notin SeqSet(RvqSeq(a, o))
  /\ ClearPages(r) \subseteq a.phys_free
  /\ SetPages(r) \cap a.phys_free = {}

\* C9: a call of reclaim_inactive that returns breaks at most one reservation
\* and returns TRUE exactly when it broke one; with a non-empty inactive
\* queue that one is the head of the inactive queue, otherwise it is on the
\* active queue; the record is then free, on no queue or list, its unpopulated
\* pages are with the physical allocator and the reclaimed counter grew by 1;
\* FALSE is returned only when neither queue holds a reservation.
C9_ReclaimInactive ==
  Running /\ ReclaimInactiveOf.s.halt = "" =>
    LET a == ReclaimInactiveOf.s
        ret == ReclaimInactiveOf.ret
    IN /\ Cardinality(BrokenBy(a)) <= 1
       /\ ret <=> BrokenBy(a) # {}
       /\ a.cnt.reclaimed = IF ret THEN 1 ELSE 0
       /\ tqh_first[INACTQ] # NULL => BrokenBy(a) = {tqh_first[INACTQ]}
       /\ \A r \in BrokenBy(a) :
            /\ BrokenIn(a, r)
            /\ tqh_first[INACTQ] = NULL => OnQueue(ACTQ, r)
       /\ \A r \in Rvs \ BrokenBy(a) : a.rv[r] = rv[r]
       /\ ~ret => /\ \A r \in Rvs : ~OnSomeQueue(r)
                  /\ a.phys_free = phys_free
\* a reservation on each queue, and the call returns TRUE
C9_Witness ==
  /\ Running
  /\ tqh_first[INACTQ] # NULL
  /\ \E r \in Rvs : OnQueue(ACTQ, r)
  /\ ReclaimInactiveOf.ret
  /\ ReclaimInactiveOf.s.halt = ""


\* C10: vm_reserv_break_all terminates; it breaks and dereferences only
\* records bound to its object, also while vm_reserv_reclaim_inactive unlinks
\* reservations of the object during its wait for a reservation mutex; each
\* record it breaks is left unbound, empty and on no queue; when it returns,
\* the object's list is empty and no record is bound to the object.
C10_BreakAll ==
  [][/\ halt' \notin {"null pointer dereference", "break_all never returns"}
     /\ (Running' /\ thr'.ba.pc = "quick") =>
          /\ thr'.ba.rv # NULL
          /\ rv'[thr'.ba.rv].object = thr'.ba.object
     /\ \A r \in ValidRvs :
          (Running' /\ thr.ba.pc = "quick" /\ thr.ba.rv = r /\ rv'[r] # rv[r]) =>
            /\ rv'[r].object = NULL
            /\ rv'[r].popcnt = 0
            /\ \A i \in 0 .. VM_LEVEL_0_NPAGES - 1 :
                 popmap_is_clear(rv'[r].popmap, i)
            /\ ~OnSomeQueue(r)'
     /\ (Running' /\ thr'.ba.pc = "done") =>
          /\ lh_first'[thr'.ba.object] = NULL
          /\ \A r \in ValidRvs : rv'[r].object # thr'.ba.object]_vars


ScanOf(target) == vm_reserv_scan(St, target)
\* the reservations that a call moves to the inactive queue
MovedBy(a) ==
  {r \in ValidRvs : VM_RESERV_F_INACTIVE \in a.rv[r].flags
                    /\ VM_RESERV_F_INACTIVE \notin rv[r].flags}
\* the elements from the one a call starts at to the end of the active queue
ScanRange ==
  Walk(tqe_next,
       IF tqe_next[Marker] # NULL THEN tqe_next[Marker] ELSE tqh_first[ACTQ],
       Fuel)
\* the last n elements of a sequence
LastN(sq, n) == {sq[i] : i \in (Len(sq) - n + 1) .. Len(sq)}

\* C11: vm_reserv_scan(target) returns having moved at most target
\* reservations from the active to the inactive queue; a reservation whose
\* record it changes was active and has actcnt lowered by exactly 1; one that
\* reaches 0 leaves the active queue and is appended to the tail of the
\* inactive queue with flag INACTIVE and actcnt 0; the call stops short of
\* target only after the whole rest of the queue was aged; no reservation's
\* object, pindex, popmap or popcnt changes.
C11_Scan ==
  Running =>
    \A target \in 0 .. MaxTarget :
      LET a == ScanOf(target)
          moved == MovedBy(a)
      IN /\ a.halt = ""
         /\ Cardinality(moved) <= target
         /\ \A r \in ValidRvs :
              /\ a.rv[r].object = rv[r].object
              /\ a.rv[r].pindex = rv[r].pindex
              /\ a.rv[r].popmap = rv[r].popmap
              /\ a.rv[r].popcnt = rv[r].popcnt
              /\ a.rv[r] # rv[r] =>
                   /\ VM_RESERV_F_ACTIVE \in rv[r].flags
                   /\ OnQueue(ACTQ, r)
                   /\ a.rv[r].actcnt = rv[r].actcnt - RV_DEC
                   /\ a.rv[r].actcnt = 0 <=> r \in moved
              /\ r \in moved =>
                   /\ a.rv[r].flags = {VM_RESERV_F_INACTIVE}
                   /\ a.rv[r].actcnt = 0
                   /\ r \notin SeqSet(QueueSeq(a, ACTQ))
         /\ moved = LastN(QueueSeq(a, INACTQ), Cardinality(moved))
         /\ Cardinality(moved) < target =>
              \A i \in 1 .. Len(ScanRange) :
                ScanRange[i] # Marker =>
                  a.rv[ScanRange[i]].actcnt = rv[ScanRange[i]].actcnt - RV_DEC


FreePageOf(m) == vm_reserv_free_page(St, m)

\* C12: vm_reserv_free_page(m) returns TRUE exactly when the record of m's
\* superpage is bound to an object; it then clears m's popmap bit, which was
\* set, changes no other bit and lowers popcnt by 1; when popcnt reaches 0
\* the record is unbound and its whole run is given to the physical
\* allocator, otherwise the record stays bound and no page is freed; when it
\* returns FALSE nothing changes.
C12_FreePage ==
  Running =>
    \A m \in Pages :
      pg[m].object # NULL =>
        LET r == vm_reserv_from_page(m)
            a == FreePageOf(m)
            i == m - rv[r].pages
        IN /\ a.ret = (rv[r].object # NULL)
           /\ a.ret =>
                /\ popmap_is_set(rv[r].popmap, i)
                /\ popmap_is_clear(a.s.rv[r].popmap, i)
                /\ \A j \in Slots \ {i} :
                     popmap_is_set(a.s.rv[r].popmap, j) = popmap_is_set(rv[r].popmap, j)
                /\ a.s.rv[r].popcnt = rv[r].popcnt - 1
                /\ \A q \in Rvs \ {r} : a.s.rv[q] = rv[q]
                /\ IF rv[r].popcnt = 1
                   THEN /\ a.s.rv[r].object = NULL
                        /\ a.s.phys_free = phys_free \cup Run(rv[r].pages, VM_LEVEL_0_NPAGES)
                        /\ Run(rv[r].pages, VM_LEVEL_0_NPAGES) \cap phys_free = {}
                   ELSE /\ a.s.rv[r].object = rv[r].object
                        /\ a.s.phys_free = phys_free
           /\ ~a.ret => a.s = St
\* one resident page is the last one of its reservation, another resident
\* page lies in a superpage whose record is unbound
C12_Witness ==
  /\ Running
  /\ \E m1, m2 \in Pages :
       /\ pg[m1].object # NULL
       /\ pg[m2].object # NULL
       /\ FreePageOf(m1).ret
       /\ rv[vm_reserv_from_page(m1)].popcnt = 1
       /\ ~FreePageOf(m2).ret


\* a request inside the object whose superpage-aligned range ends past the
\* end of the object, the object being a vnode or backed by one
VnodeTail(object, pindex) ==
  /\ pindex < obj[object].size
  /\ \E first \in 0 .. pindex :
       /\ (obj[object].pg_color + first) % VM_LEVEL_0_NPAGES = 0
       /\ pindex - first < VM_LEVEL_0_NPAGES
       /\ first + VM_LEVEL_0_NPAGES > obj[object].size
  /\ \/ obj[object].type = OBJT_VNODE
     \/ /\ obj[object].backing_object # NULL
        /\ obj[obj[object].backing_object].type = OBJT_VNODE
\* a reservation bound to the object covers pindex
Covered(object, pindex) ==
  \E r \in ValidRvs :
    /\ rv[r].object = object
    /\ IdxSub(pindex, rv[r].pindex) < VM_LEVEL_0_NPAGES

\* C13: every vm_reserv_alloc_page request for which first + N > object.size,
\* the object being a vnode or backed by one, returns NULL.
C13_VnodeTailFails ==
  Running =>
    \A object \in Objs, pindex \in VnodePindexInputs :
      (CanAllocPage(object, pindex) /\ VnodeTail(object, pindex)) =>
        AllocPageOf(object, pindex).m = NULL
\* C13, amended: such a request returns NULL when no reservation bound to
\* the object covers pindex, as on a vnode smaller than a superpage that has
\* no page yet.
C13_VnodeTailFailsUncovered ==
  Running =>
    \A object \in Objs, pindex \in VnodePindexInputs :
      (/\ CanAllocPage(object, pindex)
       /\ VnodeTail(object, pindex)
       /\ ~Covered(object, pindex)) =>
        AllocPageOf(object, pindex).m = NULL
\* the physical allocator has a free superpage, the vnode has a reservation,
\* and the object it backs has a request past its end that no reservation
\* covers
C13_Witness ==
  /\ Running
  /\ vm_phys_alloc_pages(St) # NULL
  /\ \E o1, o2 \in Objs, pindex \in VnodePindexInputs :
       /\ obj[o1].type = OBJT_VNODE
       /\ obj[o2].type # OBJT_VNODE
       /\ \E r \in ValidRvs : rv[r].object = o1
       /\ VnodeTail(o2, pindex)
       /\ CanAllocPage(o2, pindex)
       /\ ~Covered(o2, pindex)


\* what vm_page_alloc_contig may ask of vm_reserv_alloc_contig: the range lies
\* in the object and none of its pages is resident; the answer for the true
\* predecessor of pindex
CanAllocContig(object, pindex, npages) ==
  /\ pindex + npages <= obj[object].size
  /\ \A p \in Pages : pg[p].object = object =>
                          pg[p].pindex \notin pindex .. pindex + npages - 1
AllocContigOf(object, pindex, npages, c) ==
  vm_reserv_alloc_contig(St, object, pindex, npages, 0, PhysTop, c[1], c[2],
                         MemqPred(St, object, pindex))

\* C14: when vm_reserv_alloc_page or vm_reserv_alloc_contig returns NULL, the
\* state is the one before the call: no record, population map, flag, queue
\* or list has changed and the physical allocator has all the pages it had.
C14_NullChangesNothing ==
  Running =>
    \A object \in Objs, pindex \in PindexInputs :
      /\ (CanAllocPage(object, pindex) /\ AllocPageOf(object, pindex).m = NULL) =>
           AllocPageOf(object, pindex).s = St
      /\ \A npages \in 1 .. MaxNpages, c \in ContigInputs :
           (/\ CanAllocContig(object, pindex, npages)
            /\ AllocContigOf(object, pindex, npages, c).m = NULL) =>
             AllocContigOf(object, pindex, npages, c).s = St
\* the physical allocator declines a single-page request, and a contiguous
\* request finds a reservation that cannot hold it
C14_Witness ==
  /\ Running
  /\ \E object \in Objs, pindex \in PindexInputs :
       /\ CanAllocPage(object, pindex)
       /\ AllocPageOf(object, pindex).how = "nomem"
  /\ \E object \in Objs, pindex \in PindexInputs, npages \in 1 .. MaxNpages,
        c \in ContigInputs :
       /\ CanAllocContig(object, pindex, npages)
       /\ AllocContigOf(object, pindex, npages, c).how = "lost"
       /\ rv[AllocContigOf(object, pindex, npages, c).rv].popcnt > 0


\* the records that the state a binds and the state before it did not
BoundBy(a) == {r \in ValidRvs : rv[r].object = NULL /\ a.rv[r].object # NULL}
\* the slots of a reservation at first that lie in [pindex, pindex + npages)
SliceSlots(first, pindex, npages) ==
  {j \in Slots : first + j \in pindex .. pindex + npages - 1}
\* res is a run cut into the records from that of res.m on, the k-th bound to
\* (object, pindex - idx + k * N) and on the object's list, with exactly the
\* slots of the slice populated, promoted and off the queues when it is full;
\* res.m is slot idx of the first and the whole slice is taken
Carved(res, object, pindex, npages, idx) ==
  LET r0 == vm_reserv_from_page(res.m)
      n == Cardinality(BoundBy(res.s))
  IN /\ n >= 1
     /\ BoundBy(res.s) = r0 .. r0 + n - 1
     /\ res.m = rv[r0].pages + idx
     /\ Run(res.m, npages) \subseteq phys_free
     /\ Run(res.m, npages) \cap res.s.phys_free = {}
     /\ \A k \in 0 .. n - 1 :
          LET r == r0 + k
              first == pindex - idx + k * VM_LEVEL_0_NPAGES
          IN /\ res.s.rv[r].object = object
             /\ res.s.rv[r].pindex = first
             /\ r \in SeqSet(RvqSeq(res.s, object))
             /\ \A j \in Slots :
                  popmap_is_set(res.s.rv[r].popmap, j)
                    <=> j \in SliceSlots(first, pindex, npages)
             /\ res.s.rv[r].popcnt = Cardinality(SliceSlots(first, pindex, npages))
             /\ res.s.rv[r].popcnt = VM_LEVEL_0_NPAGES =>
                  /\ res.s.psind[r] = 1
                  /\ r \notin SeqSet(QueueSeq(res.s, ACTQ))
                  /\ r \notin SeqSet(QueueSeq(res.s, INACTQ))

\* C15: on the miss branch of vm_reserv_alloc_contig the run is cut into
\* consecutive reservations bound to (object, first + k * N) that hold the
\* whole slice, each with exactly the slots of [pindex, pindex + npages)
\* populated, the page returned being slot pindex mod N of the first; a full
\* one is promoted and on no queue.
C15_ContigCarve ==
  Running =>
    \A object \in Objs, a \in VnodeContigInputs, c \in ContigInputs :
      (/\ CanAllocContig(object, a[1], a[2])
       /\ AllocContigOf(object, a[1], a[2], c).how = "new") =>
        /\ Carved(AllocContigOf(object, a[1], a[2], c), object, a[1], a[2],
                  a[1] % VM_LEVEL_0_NPAGES)
        /\ Cardinality(BoundBy(AllocContigOf(object, a[1], a[2], c).s))
             * VM_LEVEL_0_NPAGES >= (a[1] % VM_LEVEL_0_NPAGES) + a[2]
\* C15, amended: the slot of pindex is (pg_color + pindex) mod N, and the run
\* is cut into the reservations that hold the slice, or into all of them but
\* the last, whose pages of the slice are then taken from the physical
\* allocator outside any reservation.
C15_ContigCarveColoured ==
  Running =>
    \A object \in Objs, a \in VnodeContigInputs, c \in ContigInputs :
      (/\ CanAllocContig(object, a[1], a[2])
       /\ AllocContigOf(object, a[1], a[2], c).how = "new") =>
        LET idx == (obj[object].pg_color + a[1]) % VM_LEVEL_0_NPAGES
            n == Cardinality(BoundBy(AllocContigOf(object, a[1], a[2], c).s))
        IN /\ Carved(AllocContigOf(object, a[1], a[2], c), object, a[1], a[2], idx)
           /\ n \in {(idx + a[2]) \div VM_LEVEL_0_NPAGES,
                     (idx + a[2] + VM_LEVEL_0_NPAGES - 1) \div VM_LEVEL_0_NPAGES}
\* a call for an object of colour other than 0 has made one full reservation
\* and left the last page of its slice outside any reservation
C15_Witness ==
  /\ Running
  /\ \E r \in ValidRvs :
       /\ r + 1 \in ValidRvs
       /\ rv[r].object # NULL
       /\ obj[rv[r].object].pg_color # 0
       /\ rv[r].popcnt = VM_LEVEL_0_NPAGES
       /\ psind[r] = 1
       /\ rv[r + 1].object = NULL
       /\ pg[rv[r + 1].pages].object = rv[r].object
       /\ pg[rv[r + 1].pages].pindex = rv[r].pindex + VM_LEVEL_0_NPAGES


\* the call of vm_reserv_alloc_contig reached found: with the reservation
\* res.rv
ReachedFound(res) == res.how \in {"found", "lost"}
\* res populated exactly the npages slots from idx of its reservation, which
\* were clear, and returned the page of slot idx
FoundPopulated(res, npages, idx) ==
  LET r == res.rv
  IN /\ res.m = rv[r].pages + idx
     /\ idx + npages <= VM_LEVEL_0_NPAGES
     /\ \A j \in Slots :
          /\ j \in idx .. idx + npages - 1 =>
               popmap_is_clear(rv[r].popmap, j) /\ popmap_is_set(res.s.rv[r].popmap, j)
          /\ j \notin idx .. idx + npages - 1 =>
               popmap_is_set(res.s.rv[r].popmap, j) = popmap_is_set(rv[r].popmap, j)
     /\ res.s.rv[r].popcnt = rv[r].popcnt + npages
FoundUnchanged(res) ==
  /\ res.m = NULL
  /\ res.s.rv[res.rv].popmap = rv[res.rv].popmap
  /\ res.s.rv[res.rv].popcnt = rv[res.rv].popcnt

\* C16: a vm_reserv_alloc_contig call that reaches found with npages > N - 1
\* returns NULL and leaves the reservation's popmap and popcnt as they were;
\* a call that succeeds at found had the npages slots from pindex mod N
\* clear and populates exactly those.
C16_ContigFound ==
  Running =>
    \A object \in Objs, pindex \in PindexInputs, npages \in 1 .. MaxNpages,
       c \in ContigInputs :
      (/\ CanAllocContig(object, pindex, npages)
       /\ ReachedFound(AllocContigOf(object, pindex, npages, c))) =>
        /\ npages > VM_LEVEL_0_NPAGES - 1 =>
             FoundUnchanged(AllocContigOf(object, pindex, npages, c))
        /\ AllocContigOf(object, pindex, npages, c).m # NULL =>
             FoundPopulated(AllocContigOf(object, pindex, npages, c), npages,
                            pindex % VM_LEVEL_0_NPAGES)
\* C16, amended: the slots are those from (pg_color + pindex) mod N.
C16_ContigFoundColoured ==
  Running =>
    \A object \in Objs, pindex \in PindexInputs, npages \in 1 .. MaxNpages,
       c \in ContigInputs :
      (/\ CanAllocContig(object, pindex, npages)
       /\ ReachedFound(AllocContigOf(object, pindex, npages, c))) =>
        /\ npages > VM_LEVEL_0_NPAGES - 1 =>
             FoundUnchanged(AllocContigOf(object, pindex, npages, c))
        /\ AllocContigOf(object, pindex, npages, c).m # NULL =>
             FoundPopulated(AllocContigOf(object, pindex, npages, c), npages,
                            (obj[object].pg_color + pindex) % VM_LEVEL_0_NPAGES)
\* for an object of colour other than 0, one request succeeds at found with
\* more than one page and a request of a whole superpage reaches found
C16_Witness ==
  /\ Running
  /\ \E object \in Objs, pindex \in PindexInputs, c \in ContigInputs :
       /\ obj[object].pg_color # 0
       /\ \E npages \in 2 .. MaxNpages :
            /\ CanAllocContig(object, pindex, npages)
            /\ AllocContigOf(object, pindex, npages, c).how = "found"
       /\ \E npages \in VM_LEVEL_0_NPAGES .. MaxNpages :
            /\ CanAllocContig(object, pindex, npages)
            /\ AllocContigOf(object, pindex, npages, c).how = "lost"


\* the slots of the pages that a break of r keeping m has to free: those
\* whose bit is clear, but for m
ToFree(r, m) ==
  {i \in Slots : popmap_is_clear(rv[r].popmap, i) /\ (m = NULL \/ i # m - rv[r].pages)}
\* the runs, each <<first slot, length>>, that vm_reserv_break(r, m) hands to
\* vm_phys_free_contig
BreakCalls(r, m) ==
  break_walk(IF m # NULL THEN popmap_set(rv[r].popmap, m - rv[r].pages)
             ELSE rv[r].popmap,
             IF m # NULL THEN rv[r].popcnt + 1 ELSE rv[r].popcnt,
             0, 0, <<>>).calls
CallSlots(call) == call[1] .. call[1] + call[2] - 1

\* C17: vm_reserv_break(R, m), m an unpopulated page of R or NULL, leaves R
\* unbound, with an empty popmap, popcnt 0 and off its object's list; the
\* pages it frees are exactly those of R whose bit was clear, but for m, each
\* in one vm_phys_free_contig call, every call a maximal run of them; the
\* broken counter grows by 1.
C17_Break ==
  Running =>
    \A r \in ValidRvs :
      Bound(r) =>
        \A m \in Keepable(r) \cup {NULL} :
          LET b == BreakOf(r, m)
              calls == BreakCalls(r, m)
              free == ToFree(r, m)
          IN /\ b.rv[r].object = NULL
             /\ b.rv[r].popmap = EmptyPopmap
             /\ b.rv[r].popcnt = 0
             /\ r \notin SeqSet(RvqSeq(b, rv[r].object))
             /\ b.cnt.broken = St.cnt.broken + 1
             /\ b.phys_free = phys_free \cup {rv[r].pages + i : i \in free}
             /\ \A i \in free : rv[r].pages + i \notin phys_free
             /\ \A i \in free :
                  Cardinality({k \in 1 .. Len(calls) : i \in CallSlots(calls[k])}) = 1
             /\ \A k \in 1 .. Len(calls) :
                  /\ calls[k][2] > 0
                  /\ CallSlots(calls[k]) \subseteq free
                  /\ calls[k][1] - 1 \notin free
                  /\ calls[k][1] + calls[k][2] \notin free
\* a reservation whose unpopulated pages form one run across the boundary of
\* two words of the map, and one whose unpopulated pages but a kept one form
\* two runs
C17_Witness ==
  /\ Running
  /\ \E r1, r2 \in ValidRvs :
       /\ Bound(r1)
       /\ Bound(r2)
       /\ ToFree(r1, NULL) = {NBPOPMAP - 1, NBPOPMAP}
       /\ r1 # r2
       /\ \E m \in Keepable(r2) : Len(BreakCalls(r2, m)) = 2


\* vm_reserv_populate(r, i) followed by vm_reserv_depopulate(r, i)
PopDepopOf(r, i) == vm_reserv_depopulate(vm_reserv_populate(St, r, i), r, i)
ClearSlots(r) == {i \in Slots : popmap_is_clear(rv[r].popmap, i)}
\* actcnt raised by step, saturating
Advanced(actcnt, step) ==
  IF actcnt + step > RV_ACT_MAX THEN RV_ACT_MAX ELSE actcnt + step
\* the pair leaves object, pindex, popmap, popcnt and the size hint of r, and
\* every other record, as they were
RoundTripCore(a, r) ==
  /\ a.rv[r].object = rv[r].object
  /\ a.rv[r].pindex = rv[r].pindex
  /\ a.rv[r].popmap = rv[r].popmap
  /\ a.rv[r].popcnt = rv[r].popcnt
  /\ \A q \in Rvs \ {r} : a.rv[q] = rv[q]

SameQueues(a) ==
  /\ a.tqh_first = tqh_first
  /\ a.tqh_last = tqh_last
  /\ a.tqe_next = tqe_next
  /\ a.tqe_prev = tqe_prev
FreeOfAlloc(res) == vm_reserv_free_page(res.s, res.m)

\* C19: when vm_reserv_alloc_page returns a page, vm_reserv_free_page of that
\* page returns TRUE and leaves the reservation with the object, pindex,
\* popmap and popcnt it had before the allocation; when the allocation had
\* made the reservation, the record is unbound again with popcnt 0 and its
\* whole run is back in the physical allocator.
C19_AllocThenFree ==
  Running =>
    \A object \in Objs, pindex \in PindexInputs :
      (CanAllocPage(object, pindex) /\ AllocPageOf(object, pindex).m # NULL) =>
        LET res == AllocPageOf(object, pindex)
            a == FreeOfAlloc(res)
            r == res.rv
        IN /\ a.ret
           /\ a.s.rv[r].popmap = rv[r].popmap
           /\ a.s.rv[r].popcnt = rv[r].popcnt
           /\ a.s.phys_free = phys_free
           /\ IF res.how = "new"
              THEN /\ rv[r].object = NULL
                   /\ a.s.rv[r].object = NULL
                   /\ a.s.rv[r].popcnt = 0
                   /\ Run(rv[r].pages, VM_LEVEL_0_NPAGES) \subseteq a.s.phys_free
                   /\ r \notin SeqSet(RvqSeq(a.s, object))
              ELSE /\ rv[r].object = object
                   /\ a.s.rv[r].object = rv[r].object
                   /\ a.s.rv[r].pindex = rv[r].pindex
\* a state with a reservation in which one request is served from that
\* reservation and another request makes a new one
C19_Witness ==
  /\ Running
  /\ \E object \in Objs, p1, p2 \in PindexInputs :
       /\ CanAllocPage(object, p1)
       /\ CanAllocPage(object, p2)
       /\ AllocPageOf(object, p1).how = "found"
       /\ AllocPageOf(object, p2).how = "new"


\* C20: vm_reserv_reclaim_inactive never waits for a lock: it is never
\* blocked in vm_reserv_lock on a reservation mutex that another thread
\* holds, nor in mtx_lock on the free-queue lock after such a wait; when the
\* mutex of its candidate is held it returns.
C20_ReclaimNeverBlocks ==
  Running => thr.ri.pc \notin {"wait", "relock"}


PopulateOf(r, i) == vm_reserv_populate(St, r, i)
DepopulateOf(r, i) == vm_reserv_depopulate(St, r, i)
SetSlots(r) == {i \in Slots : popmap_is_set(rv[r].popmap, i)}
\* the last element of queue q in state a, NULL when the queue is empty
TailIn(a, q) ==
  LET sq == QueueSeq(a, q) IN IF sq = <<>> THEN NULL ELSE sq[Len(sq)]
PartialIn(a, r) == a.rv[r].popcnt > 0 /\ a.rv[r].popcnt < VM_LEVEL_0_NPAGES
\* the populates and depopulates of the bound reservation r that its
\* population map allows, each as the state it leaves
TouchesOf(r) ==
  {PopulateOf(r, i) : i \in ClearSlots(r)} \cup {DepopulateOf(r, i) : i \in SetSlots(r)}

\* C21: every populate or depopulate that leaves a reservation partially
\* populated leaves it at the tail of the active queue, so that on each LRU
\* queue a reservation nearer the head was touched no later than one nearer
\* the tail.
C21_TouchGoesToTail ==
  Running =>
    \A r \in ValidRvs :
      Bound(r) =>
        \A a \in TouchesOf(r) :
          PartialIn(a, r) => TailIn(a, ACTQ) = r



\* what vm_page_rename may ask of vm_reserv_rename: m is a page of
\* old_object at or past old_object_offset, its place in new_object is free
\* and the colours of the two objects agree at that offset
CanRename(m, new_object, old_object, offset) ==
  /\ new_object # old_object
  /\ pg[m].object = old_object
  /\ pg[m].pindex >= offset
  /\ (obj[old_object].pg_color + offset) % VM_LEVEL_0_NPAGES
       = obj[new_object].pg_color % VM_LEVEL_0_NPAGES
  /\ PageAt(St, new_object, pg[m].pindex - offset) = NULL
  /\ pg[m].pindex - offset < obj[new_object].size
RenameOf(m, new_object, old_object, offset) ==
  vm_reserv_rename(St, m, new_object, old_object, offset)

\* C22: vm_reserv_rename(m, new_object, old_object, old_offset), when the
\* reservation R of m is bound to old_object, binds R to new_object at its
\* former pindex minus old_offset (in vm_pindex_t), puts R on new_object's
\* list and takes it off old_object's, and leaves R's popmap, popcnt, flags,
\* actcnt and every link of the LRU queues, and every other record, as they
\* were; when R is not bound to old_object nothing changes.
C22_Rename ==
  Running =>
    \A m \in Pages, new_object \in Objs, old_object \in Objs, offset \in OffsetInputs :
      CanRename(m, new_object, old_object, offset) =>
        LET r == vm_reserv_from_page(m)
            a == RenameOf(m, new_object, old_object, offset)
        IN IF rv[r].object = old_object
           THEN /\ a.rv[r].object = new_object
                /\ a.rv[r].pindex = IdxSub(rv[r].pindex, offset)
                /\ Count(RvqSeq(a, new_object), r) = 1
                /\ r \notin SeqSet(RvqSeq(a, old_object))
                /\ \A q \in Rvs \ {r} :
                     (q \in SeqSet(RvqSeq(a, old_object))) = OnRvq(old_object, q)
                /\ a.rv[r].popmap = rv[r].popmap
                /\ a.rv[r].popcnt = rv[r].popcnt
                /\ a.rv[r].flags = rv[r].flags
                /\ a.rv[r].actcnt = rv[r].actcnt
                /\ a.rv[r].pages = rv[r].pages
                /\ SameQueues(a)
                /\ \A q \in Elems \ {r} : a.rv[q] = rv[q]
                /\ a.phys_free = phys_free
           ELSE a = St
\* a page of a partially populated reservation of old_object that is on an
\* LRU queue can be renamed, and the reservation starts below the offset
C22_Witness ==
  /\ Running
  /\ \E m \in Pages, new_object \in Objs, old_object \in Objs, offset \in OffsetInputs :
       /\ CanRename(m, new_object, old_object, offset)
       /\ rv[vm_reserv_from_page(m)].object = old_object
       /\ OnSomeQueue(vm_reserv_from_page(m))
       /\ rv[vm_reserv_from_page(m)].pindex < offset



\* the reservation and the slot of the page that the thread in
\* vm_reserv_free_page is freeing
FpRv == vm_reserv_from_page(thr.fp.m)
FpIndex == thr.fp.m - rv[FpRv].pages

\* C23: in every interleaving every call of populate, depopulate and break
\* finds its asserted pre-conditions true.  A thread is about to call
\* vm_reserv_depopulate when it holds the reservation mutex in
\* vm_reserv_free_page: the record then has an object, the bit of the page is
\* set and popcnt > 0, also when vm_reserv_reclaim_inactive breaks reservations
\* meanwhile; a thread about to call vm_reserv_break (at quick: in
\* vm_reserv_break_all, after the relock in vm_reserv_reclaim_inactive) has a
\* record with an object; and no assertion fails in an allocation.
C23_AssertedPreconditions ==
  Running =>
    /\ thr.fp.pc = "locked" =>
         /\ rv[FpRv].object # NULL
         /\ popmap_is_set(rv[FpRv].popmap, FpIndex)
         /\ rv[FpRv].popcnt > 0
    /\ (thr.ba.pc = "quick" /\ thr.ba.rv # NULL) => rv[thr.ba.rv].object # NULL
    /\ thr.ri.pc = "relock" =>
         /\ rv[thr.ri.rv].object # NULL
         /\ InPartpop(St, thr.ri.rv)
    /\ Quiet =>
         \A a \in ConcAllocInputs :
           CanAllocPage(a[1], a[2]) => AllocPageOf(a[1], a[2]).s.chk = ""



\* C24: the free-queue lock is held by the acting thread at every step that
\* walks or changes an LRU queue, changes an object's reservation list or
\* calls the physical allocator.  vm_reserv_reclaim_inactive walks the queues
\* from restart: and breaks a reservation from there, vm_reserv_break_all
\* reads the object's list at the head of its loop and breaks at quick:, and
\* each of them owns the lock at these places, also after
\* vm_reserv_reclaim_inactive has gone back to restart: from its wait for a
\* reservation mutex; and vm_reserv_reclaim_inactive returns with the lock.
C24_FreeQueueLockHeld ==
  /\ Running =>
       /\ thr.ri.pc = "restart" => mtx = "ri"
       /\ thr.ba.pc \in {"loop", "quick"} => mtx = "ba"
  /\ halt # "vm_page_queue_free_mtx unlocked by a thread that does not own it"



\* C28: in every reachable state the scan marker is linked on the active
\* queue exactly once and not on the inactive queue, whatever targets
\* vm_reserv_scan was called with and whatever the queue held, also after a
\* scan that started from the head of the queue and stopped with its target
\* used up; and the marker's record is never changed: it is not moved between
\* the queues, reclaimed or broken.
C28_MarkerLinkedOnce ==
  Running =>
    /\ Count(QueueSeq(St, ACTQ), Marker) = 1
    /\ Marker \notin SeqSet(QueueSeq(St, INACTQ))
    /\ rv[Marker] = [ZeroRv EXCEPT !.flags = {VM_RESERV_F_MARKER, VM_RESERV_F_ACTIVE}]


\* C29: every call of vm_reserv_alloc_page, vm_reserv_alloc_contig and
\* vm_reserv_reclaim_inactive returns: none of their loops runs for ever.
C29_CallsReturn ==
  Running =>
    /\ ReclaimInactiveOf.s.halt = ""
    /\ \A object \in Objs, pindex \in PindexInputs :
         CanAllocPage(object, pindex) => AllocPageOf(object, pindex).s.halt = ""
    /\ \A object \in Objs, pindex \in PindexInputs, npages \in 1 .. MaxNpages,
          c \in ContigInputs :
         CanAllocContig(object, pindex, npages) =>
           AllocContigOf(object, pindex, npages, c).s.halt = ""


\* C30: in every reachable state a reservation on the active queue has
\* 1 <= actcnt <= RV_ACT_MAX and one on the inactive queue has actcnt = 0;
\* and a populate or depopulate of an active reservation that leaves it
\* partially populated raises actcnt by 1, saturating at RV_ACT_MAX.
C30_ActcntRange ==
  Running =>
    \A r \in Rvs :
      /\ (OnQueue(ACTQ, r) \/ VM_RESERV_F_ACTIVE \in rv[r].flags) =>
           rv[r].actcnt >= 1 /\ rv[r].actcnt <= RV_ACT_MAX
      /\ (OnQueue(INACTQ, r) \/ VM_RESERV_F_INACTIVE \in rv[r].flags) =>
           rv[r].actcnt = 0
      /\ (Bound(r) /\ rv[r].pages # NULL /\ VM_RESERV_F_ACTIVE \in rv[r].flags) =>
           \A a \in TouchesOf(r) :
             PartialIn(a, r) => a.rv[r].actcnt = Advanced(rv[r].actcnt, 1)
\* an active reservation below RV_ACT_MAX and one at RV_ACT_MAX, each of
\* which a populate leaves partially populated
C30_Witness ==
  /\ Running
  /\ \E r1, r2 \in ValidRvs :
       /\ OnQueue(ACTQ, r1) /\ rv[r1].actcnt < RV_ACT_MAX
       /\ \E i \in ClearSlots(r1) : PartialIn(PopulateOf(r1, i), r1)
       /\ OnQueue(ACTQ, r2) /\ rv[r2].actcnt = RV_ACT_MAX
       /\ \E i \in ClearSlots(r2) : PartialIn(PopulateOf(r2, i), r2)



\* the thread waits for a mutex that is not free
BaBlocked ==
  \/ thr.ba.pc = "wait" /\ rvlock[RV_LOCKPTR(thr.ba.rv)] # ""
  \/ thr.ba.pc = "relock" /\ mtx # ""
RiBlocked ==
  \/ thr.ri.pc = "wait" /\ rvlock[RV_LOCKPTR(thr.ri.rv)] # ""
  \/ thr.ri.pc = "relock" /\ mtx # ""
FpBlocked ==
  \/ thr.fp.pc = "lock" /\ rvlock[RV_LOCKPTR(vm_reserv_from_page(thr.fp.m))] # ""
  \/ thr.fp.pc = "mtx" /\ mtx # ""
\* some thread is inside an operation and every such thread is blocked
Deadlocked ==
  /\ ~Quiet
  /\ thr.ba.pc # "idle" => BaBlocked
  /\ thr.ri.pc # "idle" => RiBlocked
  /\ thr.fp.pc # "idle" => FpBlocked
\* the reservation mutexes that thread t owns
HeldBy(t) == {l \in DOMAIN rvlock : rvlock[l] = t}

C25_WritesUnderLock ==
  [][Running => \A r \in Rvs : \A t \in {"ba", "ri", "fp"} :
       (rvlock[RV_LOCKPTR(r)] = t /\ rv'[r] # rv[r]) => thr'[t] # thr[t]]_vars

\* C27: sequence-counter reads are never torn, the found branch of the
\* allocators holds the mutex of a reservation bound to the caller's object
\* that covers pindex, and the seq value is even whenever no
\* vm_reserv_set_object is in progress: a record no thread is inside
\* vm_reserv_set_object of has an even seq
C27_SeqEvenAtRest ==
  Running => \A r \in Rvs :
    (\A t \in SoThreads : ~(InSetObject(t) /\ SoRv(t) = r)) => rv[r].seq % 2 = 0

\* the three places a small page can be in
PageFree(p) == p \in phys_free
PageInUse(p) == pg[p].object # NULL
PageReserved(p) ==
  /\ Bound(vm_reserv_from_page(p))
  /\ popmap_is_clear(rv[vm_reserv_from_page(p)].popmap,
                     p - rv[vm_reserv_from_page(p)].pages)
  /\ pg[p].object = NULL
PlacesOf(p) ==
  (IF PageFree(p) THEN 1 ELSE 0) + (IF PageInUse(p) THEN 1 ELSE 0)
    + (IF PageReserved(p) /\ ~PageFree(p) THEN 1 ELSE 0)
\* an in-use page of a bound reservation has its popmap bit set, and a set
\* bit stands for an in-use page
BitsMatchUse(p) ==
  LET r == vm_reserv_from_page(p)
  IN Bound(r) => (popmap_is_set(rv[r].popmap, p - rv[r].pages) <=> PageInUse(p))
\* no page of a bound reservation is in the free set
BoundNotFree(p) == Bound(vm_reserv_from_page(p)) => ~PageFree(p)
Conserved(p) == PlacesOf(p) = 1 /\ BitsMatchUse(p) /\ BoundNotFree(p)

\* C31: between operations every small page of a valid superpage is in
\* exactly one of three places: the free set of the small-page allocator, in
\* use (bit set in a bound reservation, or held by an object whose
\* reservation was broken), or reserved and unused (bit clear in a bound
\* reservation); no page is freed twice and no in-use page is freed
C31_PageConservation ==
  (Running /\ Quiet) => \A p \in Pages :
    rv[vm_reserv_from_page(p)].pages # NULL => Conserved(p)

\* a partially populated reservation on the active queue
Aging(r) == Flag(St, r, VM_RESERV_F_ACTIVE) /\ Partial(r)

\* C32: a partially populated reservation on the active queue that is never
\* populated or depopulated again is moved off the active queue by finitely
\* many calls of vm_reserv_scan with a positive target, wherever the marker
\* stands and however many other reservations are on the queue: once pages
\* are no longer allocated or freed, a reservation that is still aging has a
\* next call of vm_reserv_scan to come, and after MaxScans calls none is
\* left aging
C32_AgingProgress ==
  thr.phase = "age" =>
    \A r \in Rvs : Aging(r) => (Running /\ thr.scans < MaxScans)
====
